---------------------------- MODULE Spec2Model ----------------------------
(***************************************************************************)
(* Model of local-s3: the object store (internal/storage/storage.go), the  *)
(* signature verifier (internal/auth/auth.go) and the HTTP handlers that   *)
(* join them (internal/handlers/handlers.go).                              *)
(*                                                                         *)
(* Strings are sequences of tokens.  A token is a TLA+ string standing for *)
(* one or more bytes that the code never splits ("/", "=", ".metadata",    *)
(* "top", ...).  The token alphabet is prefix-free, so comparing token     *)
(* sequences lexicographically by TokenOrder is Go's byte-wise string      *)
(* comparison.                                                             *)
(*                                                                         *)
(* The filesystem under basePath is a function from paths to entries.  A   *)
(* path is a sequence of file names relative to basePath (<<>> is basePath *)
(* itself); a file name is a string (a sequence of tokens).                *)
(***************************************************************************)
EXTENDS Integers, Sequences, FiniteSets, TLC

VARIABLES
    fs,      \* the directory tree under basePath: path -> entry
    now,     \* the last value time.Now().UnixNano() returned
    stored,  \* history: <<bucket, key>> of every object put and not deleted
    hist,    \* history: bucket -> "never", "live" (created) or "deleted"
    last,    \* the last call or request and what it returned
    steps,   \* number of calls made so far
    disableAuth, \* the handlers' authentication-bypass flag (cfg.DisableAuth)
    calls,   \* the calls that run concurrently, each with its position
    sessions \* history: <<bucket, uploadID, key>> of every upload initiated
             \* and not completed or aborted

vars == <<fs, now, stored, hist, last, steps, disableAuth, calls, sessions>>

\* no call is in flight: the calls of a behaviour are made one after another
NoCalls == <<>>

(***************************************************************************)
(* Bounds of the model.                                                    *)
(***************************************************************************)
MaxSteps == 3     \* state-changing calls made after the initial state
MaxClock == 2     \* values the clock takes
MaxParts == 2     \* part numbers 1..MaxParts
MaxRequests == 2  \* state-changing requests the handlers serve

(***************************************************************************)
(* Strings.                                                                *)
(***************************************************************************)
\* Tokens in byte order of their first differing byte.
TokenOrder ==
    << "\t", " ", ".", "..", ".metadata", ".uploads", "/", "1", "2", "3", "=",
       "A", "B", "X-Amz-Meta-A", "X-Amz-Meta-B", "a", "b1", "b2",
       "content-type", "date", "delimiter", "health", "marker", "max-keys",
       "part-1", "part-2", "part-3", "partNumber", "prefix", "top", "uploadId", "uploads", "v", "w",
       "x", "x-amz-content-sha256", "x-amz-date", "x-amz-meta-a",
       "x-amz-meta-b", "y" >>

Rank(tok) == CHOOSE i \in 1..Len(TokenOrder) : TokenOrder[i] = tok

Min(a, b) == IF a <= b THEN a ELSE b

\* the element of a singleton; { e(x) : x \in {v} } binds v to x once
Only(S) == CHOOSE x \in S : TRUE

RECURSIVE StrLess(_, _)
\* Go: a < b on strings
StrLess(a, b) ==
    IF b = <<>> THEN FALSE
    ELSE IF a = <<>> THEN TRUE
    ELSE IF Head(a) = Head(b) THEN StrLess(Tail(a), Tail(b))
    ELSE Rank(Head(a)) < Rank(Head(b))

\* Go: a <= b on strings
StrLE(a, b) == a = b \/ StrLess(a, b)

\* strings.HasPrefix
HasPrefix(s, p) == Len(p) <= Len(s) /\ SubSeq(s, 1, Len(p)) = p

\* strings.HasSuffix
HasSuffix(s, suf) ==
    Len(suf) <= Len(s) /\ SubSeq(s, Len(s) - Len(suf) + 1, Len(s)) = suf

\* strings.TrimPrefix
TrimPrefix(s, p) == IF HasPrefix(s, p) THEN SubSeq(s, Len(p) + 1, Len(s)) ELSE s

\* strings.Index: offset of the first occurrence of sep in s, -1 if none
Index(s, sep) ==
    LET hits == { i \in 0..(Len(s) - Len(sep)) : SubSeq(s, i + 1, i + Len(sep)) = sep }
    IN  IF hits = {} THEN -1 ELSE CHOOSE i \in hits : \A j \in hits : i <= j

RECURSIVE Split(_, _)
\* strings.Split(s, sep) for a non-empty sep
Split(s, sep) ==
    LET i == Index(s, sep)
    IN  IF i < 0 THEN <<s>>
        ELSE <<SubSeq(s, 1, i)>> \o Split(SubSeq(s, i + Len(sep) + 1, Len(s)), sep)

\* strings.SplitN(s, sep, 2)
SplitN2(s, sep) ==
    LET i == Index(s, sep)
    IN  IF i < 0 THEN <<s>>
        ELSE <<SubSeq(s, 1, i), SubSeq(s, i + Len(sep) + 1, Len(s))>>

RECURSIVE Join(_, _)
\* strings.Join(parts, sep)
Join(parts, sep) ==
    IF parts = <<>> THEN <<>>
    ELSE IF Len(parts) = 1 THEN parts[1]
    ELSE parts[1] \o sep \o Join(Tail(parts), sep)

IsSpace(tok) == tok \in {" ", "\t", "\n"}

RECURSIVE TrimLeft(_)
TrimLeft(s) == IF s # <<>> /\ IsSpace(Head(s)) THEN TrimLeft(Tail(s)) ELSE s

RECURSIVE TrimRight(_)
TrimRight(s) ==
    IF s # <<>> /\ IsSpace(s[Len(s)]) THEN TrimRight(SubSeq(s, 1, Len(s) - 1)) ELSE s

\* strings.TrimSpace
TrimSpace(s) == TrimRight(TrimLeft(s))

(***************************************************************************)
(* The filesystem: os and path/filepath as the store uses them.            *)
(***************************************************************************)
Dir == [kind |-> "dir", data |-> <<>>]
File(data) == [kind |-> "file", data |-> data]

Exists(f, p) == p \in DOMAIN f
IsDir(f, p) == Exists(f, p) /\ f[p].kind = "dir"
IsFile(f, p) == Exists(f, p) /\ f[p].kind = "file"
Parent(p) == SubSeq(p, 1, Len(p) - 1)
Children(f, p) == { q \in DOMAIN f : Len(q) = Len(p) + 1 /\ Parent(q) = p }
Under(f, p) == { q \in DOMAIN f : Len(q) >= Len(p) /\ SubSeq(q, 1, Len(p)) = p }

\* the error of looking p up (os.Stat, os.Open): "" if it exists, ENOTDIR if
\* a file stands where one of its directories should be, else ENOENT
LookupErr(f, p) ==
    IF Exists(f, p) THEN ""
    ELSE IF \E i \in 1..(Len(p) - 1) : IsFile(f, SubSeq(p, 1, i)) THEN "ENOTDIR"
    ELSE "ENOENT"

\* f with path p bound to entry e
Bind(f, p, e) == [q \in (DOMAIN f) \cup {p} |-> IF q = p THEN e ELSE f[q]]

\* f without the paths in ps
Unbind(f, ps) == [q \in (DOMAIN f) \ ps |-> f[q]]

RECURSIVE CleanNames(_, _)
\* filepath.Clean on the components after basePath: "" and "." are dropped,
\* ".." removes the component before it
CleanNames(names, acc) ==
    IF names = <<>> THEN acc
    ELSE LET n == Head(names)
         IN  IF n = <<>> \/ n = <<".">> THEN CleanNames(Tail(names), acc)
             ELSE IF n = <<"..">>
                  THEN IF acc # <<>> /\ acc[Len(acc)] # <<"..">>
                       THEN CleanNames(Tail(names), SubSeq(acc, 1, Len(acc) - 1))
                       ELSE CleanNames(Tail(names), Append(acc, n))
             ELSE CleanNames(Tail(names), Append(acc, n))

\* filepath.Join(fs.basePath, bucket, key), relative to basePath
JoinPath(bucket, key) == CleanNames(Split(bucket, <<"/">>) \o Split(key, <<"/">>), <<>>)

\* objectPath + ".metadata"
MetadataPath(p) ==
    IF p = <<>> THEN << <<"..">>, <<".metadata">> >>   \* basePath + ".metadata": outside basePath
    ELSE Append(Parent(p), p[Len(p)] \o <<".metadata">>)

RECURSIVE MkdirAll(_, _)
\* os.MkdirAll: [fs, err]
MkdirAll(f, p) ==
    IF Exists(f, p)
    THEN [fs |-> f, err |-> IF IsDir(f, p) THEN "" ELSE "ENOTDIR"]
    ELSE IF p = <<>> THEN [fs |-> Bind(f, p, Dir), err |-> ""]
    ELSE IF p[Len(p)] = <<"..">> THEN [fs |-> f, err |-> "EACCES"]
    ELSE LET up == MkdirAll(f, Parent(p))
         IN  IF up.err # "" THEN up
             ELSE [fs |-> Bind(up.fs, p, Dir), err |-> ""]

CreateNoTruncate(f, p) ==
    IF IsDir(f, p) THEN [fs |-> f, err |-> "EISDIR"]
    ELSE IF p = <<>> \/ ~IsDir(f, Parent(p)) THEN [fs |-> f, err |-> LookupErr(f, Append(p, <<>>))]
    ELSE [fs |-> IF Exists(f, p) THEN f ELSE Bind(f, p, File(<<>>)), err |-> ""]

\* os.Create: the file is created, or truncated if it exists; [fs, err]
Create(f, p) ==
    IF IsDir(f, p) THEN [fs |-> f, err |-> "EISDIR"]
    ELSE IF p = <<>> \/ ~IsDir(f, Parent(p)) THEN [fs |-> f, err |-> LookupErr(f, Append(p, <<>>))]
    ELSE [fs |-> Bind(f, p, File(<<>>)), err |-> ""]

\* io.Copy(file, data) into a file just opened: data is written from offset 0
\* over what the file holds
Copy(f, p, data) ==
    Bind(f, p, File(data \o SubSeq(f[p].data, Len(data) + 1, Len(f[p].data))))

\* os.Remove: a file, or an empty directory; [fs, err]
Remove(f, p) ==
    IF ~Exists(f, p) THEN [fs |-> f, err |-> LookupErr(f, p)]
    ELSE IF IsDir(f, p) /\ Children(f, p) # {} THEN [fs |-> f, err |-> "ENOTEMPTY"]
    ELSE [fs |-> Unbind(f, {p}), err |-> ""]

\* os.RemoveAll: the path and everything under it; no error if it is absent
RemoveAll(f, p) == Unbind(f, Under(f, p))

NameLess(p, q) == StrLess(p[Len(p)], q[Len(q)])

RECURSIVE SortByName(_)
\* os.ReadDir and filepath.Walk: entries sorted by file name
SortByName(ps) ==
    IF ps = {} THEN <<>>
    ELSE LET m == CHOOSE p \in ps : \A q \in ps \ {p} : NameLess(p, q)
         IN  <<m>> \o SortByName(ps \ {m})

RECURSIVE WalkList(_, _)
\* filepath.Walk: the regular files under the paths ps, in lexical order,
\* a directory's files before its next sibling
WalkList(f, ps) ==
    IF ps = <<>> THEN <<>>
    ELSE LET p == Head(ps)
         IN  (IF IsFile(f, p) THEN <<p>> ELSE WalkList(f, SortByName(Children(f, p))))
             \o WalkList(f, Tail(ps))

(***************************************************************************)
(* FileSystemStorage (internal/storage/storage.go).  Every operation is an *)
(* operator from the filesystem f to a record with the filesystem it       *)
(* leaves, the error it returns ("" is nil) and its results.               *)
(***************************************************************************)
ErrBucketNotFound == "bucket does not exist"
ErrBucketNotEmpty == "bucket is not empty"
ErrObjectNotFound == "object does not exist"

NoMetadata == [n \in {} |-> <<>>]

BucketExists(f, bucket) == IsDir(f, JoinPath(bucket, <<>>))

CreateBucket(f, bucket) == MkdirAll(f, JoinPath(bucket, <<>>))

DeleteBucketRawError(f, bucket) ==
    LET bucketPath == JoinPath(bucket, <<>>)
    IN  IF ~IsDir(f, bucketPath) THEN [fs |-> f, err |-> LookupErr(f, bucketPath)]
        ELSE IF Children(f, bucketPath) # {} THEN [fs |-> f, err |-> ErrBucketNotEmpty]
        ELSE Remove(f, bucketPath)

\* DeleteBucket without the emptiness check of storage.go:92-103, removing
\* the directory with all it holds
DeleteBucketRemoveAll(f, bucket) ==
    LET bucketPath == JoinPath(bucket, <<>>)
    IN  IF ~Exists(f, bucketPath) THEN [fs |-> f, err |-> ErrBucketNotFound]
        ELSE [fs |-> RemoveAll(f, bucketPath), err |-> ""]

DeleteBucket(f, bucket) ==
    LET bucketPath == JoinPath(bucket, <<>>)
    IN  IF ~Exists(f, bucketPath) THEN [fs |-> f, err |-> ErrBucketNotFound]
        ELSE IF ~IsDir(f, bucketPath) THEN [fs |-> f, err |-> "ENOTDIR"]
        ELSE IF Children(f, bucketPath) # {} THEN [fs |-> f, err |-> ErrBucketNotEmpty]
        ELSE Remove(f, bucketPath)

\* the names of the top-level directories, in os.ReadDir's order
ListBuckets(f) ==
    IF ~Exists(f, <<>>) THEN [err |-> "", buckets |-> <<>>]
    ELSE IF ~IsDir(f, <<>>) THEN [err |-> "ENOTDIR", buckets |-> <<>>]
    ELSE LET dirs == SortByName({ p \in Children(f, <<>>) : IsDir(f, p) })
         IN  [err |-> "", buckets |-> [i \in 1..Len(dirs) |-> dirs[i][1]]]

RECURSIVE MetadataLines(_, _)
\* the "key=value\n" lines of storeMetadata, for the keys in the order the
\* map iteration yields them
MetadataLines(metadata, order) ==
    IF order = <<>> THEN <<>>
    ELSE Head(order) \o <<"=">> \o metadata[Head(order)] \o <<"\n">>
         \o MetadataLines(metadata, Tail(order))

\* storeMetadata: [fs, err]
storeMetadata(f, objectPath, metadata, order) ==
    IF DOMAIN metadata = {} THEN [fs |-> f, err |-> ""]
    ELSE LET metadataPath == MetadataPath(objectPath)
             c == Create(f, metadataPath)
         IN  IF c.err # "" THEN c
             ELSE [fs |-> Copy(c.fs, metadataPath, MetadataLines(metadata, order)),
                   err |-> ""]

RECURSIVE ParseMetadataLines(_, _)
ParseMetadataLines(lines, acc) ==
    IF lines = <<>> THEN acc
    ELSE LET line == TrimSpace(Head(lines))
             parts == SplitN2(line, <<"=">>)
         IN  IF line = <<>> \/ Len(parts) # 2 THEN ParseMetadataLines(Tail(lines), acc)
             ELSE ParseMetadataLines(Tail(lines),
                      [n \in (DOMAIN acc) \cup {parts[1]} |->
                          IF n = parts[1] THEN parts[2] ELSE acc[n]])

\* loadMetadata: the map read back from the side file, empty if it cannot be read
loadMetadata(f, objectPath) ==
    LET metadataPath == MetadataPath(objectPath)
    IN  IF ~IsFile(f, metadataPath) THEN NoMetadata
        ELSE ParseMetadataLines(Split(f[metadataPath].data, <<"\n">>), NoMetadata)

\* removeMetadata: os.Remove of the side file, its error dropped
removeMetadata(f, objectPath) == Remove(f, MetadataPath(objectPath)).fs

NoInfo == [Key |-> <<>>, Size |-> 0, Metadata |-> NoMetadata]

PutObject(f, bucket, key, data, size, metadata, order) ==
    IF ~BucketExists(f, bucket) THEN [fs |-> f, err |-> ErrBucketNotFound, info |-> NoInfo]
    ELSE LET objectPath == JoinPath(bucket, key)
             d == MkdirAll(f, Parent(objectPath))
         IN  IF d.err # "" THEN [fs |-> d.fs, err |-> d.err, info |-> NoInfo]
             ELSE LET c == Create(d.fs, objectPath)
                  IN  IF c.err # "" THEN [fs |-> c.fs, err |-> c.err, info |-> NoInfo]
                      ELSE LET w == Copy(c.fs, objectPath, data)
                               m == storeMetadata(w, objectPath, metadata, order)
                           IN  [fs |-> m.fs, err |-> "",
                                info |-> [Key |-> key, Size |-> Len(data), Metadata |-> metadata]]

\* GetObject: body is what reading the returned stream to its end yields;
\* os.Open also opens a directory, whose reads then fail (readErr)
GetObject(f, bucket, key) ==
    LET objectPath == JoinPath(bucket, key)
        none == [err |-> "", body |-> <<>>, readErr |-> "", info |-> NoInfo]
    IN  IF ~BucketExists(f, bucket) THEN [none EXCEPT !.err = ErrBucketNotFound]
        ELSE IF ~Exists(f, objectPath)
             THEN [none EXCEPT !.err = IF LookupErr(f, objectPath) = "ENOENT"
                                       THEN ErrObjectNotFound ELSE LookupErr(f, objectPath)]
        ELSE [err |-> "",
              body |-> f[objectPath].data,
              readErr |-> IF IsDir(f, objectPath) THEN "EISDIR" ELSE "",
              info |-> [Key |-> key, Size |-> Len(f[objectPath].data),
                        Metadata |-> loadMetadata(f, objectPath)]]

HeadObject(f, bucket, key) ==
    LET objectPath == JoinPath(bucket, key)
    IN  IF ~BucketExists(f, bucket) THEN [err |-> ErrBucketNotFound, info |-> NoInfo]
        ELSE IF ~Exists(f, objectPath)
             THEN [err |-> IF LookupErr(f, objectPath) = "ENOENT"
                           THEN ErrObjectNotFound ELSE LookupErr(f, objectPath),
                   info |-> NoInfo]
        ELSE [err |-> "",
              info |-> [Key |-> key, Size |-> Len(f[objectPath].data),
                        Metadata |-> loadMetadata(f, objectPath)]]

ObjectExists(f, bucket, key) == Exists(f, JoinPath(bucket, key))

DeleteObject(f, bucket, key) ==
    IF ~BucketExists(f, bucket) THEN [fs |-> f, err |-> ErrBucketNotFound]
    ELSE LET objectPath == JoinPath(bucket, key)
         IN  Remove(removeMetadata(f, objectPath), objectPath)

AppendCommonPrefixAlways(commonPrefixes, commonPrefix) ==
    Append(commonPrefixes, commonPrefix)

\* the prefixMap test of ListObjects: a common prefix is appended once
AppendCommonPrefix(commonPrefixes, commonPrefix) ==
    IF \E i \in 1..Len(commonPrefixes) : commonPrefixes[i] = commonPrefix
    THEN commonPrefixes
    ELSE Append(commonPrefixes, commonPrefix)

RECURSIVE ListWalk(_, _, _, _, _, _, _, _)
\* the callback of filepath.Walk in ListObjects, applied to the files in
\* Walk's order: [objects, commonPrefixes]
ListWalk(f, bucketPath, files, prefix, delimiter, marker, objects, commonPrefixes) ==
    IF files = <<>> THEN [objects |-> objects, commonPrefixes |-> commonPrefixes]
    ELSE LET path == Head(files)
             rest == Tail(files)
             \* filepath.Rel(bucketPath, path), separators as "/"
             key == Join(SubSeq(path, Len(bucketPath) + 1, Len(path)), <<"/">>)
             remaining == TrimPrefix(key, prefix)
             idx == Index(remaining, delimiter)
             commonPrefix == prefix \o SubSeq(remaining, 1, idx + Len(delimiter))
         IN  IF HasSuffix(key, <<".metadata">>)
             THEN ListWalk(f, bucketPath, rest, prefix, delimiter, marker, objects, commonPrefixes)
             ELSE IF prefix # <<>> /\ ~HasPrefix(key, prefix)
             THEN ListWalk(f, bucketPath, rest, prefix, delimiter, marker, objects, commonPrefixes)
             ELSE IF marker # <<>> /\ StrLE(key, marker)
             THEN ListWalk(f, bucketPath, rest, prefix, delimiter, marker, objects, commonPrefixes)
             ELSE IF delimiter # <<>> /\ idx >= 0
             THEN ListWalk(f, bucketPath, rest, prefix, delimiter, marker, objects,
                           AppendCommonPrefix(commonPrefixes, commonPrefix))
             ELSE ListWalk(f, bucketPath, rest, prefix, delimiter, marker,
                           Append(objects, [Key |-> key, Size |-> Len(f[path].data),
                                            Metadata |-> loadMetadata(f, path)]),
                           commonPrefixes)

\* ListObjects reporting the first key it left out as the next marker
ListObjectsMarkerPastCut(f, bucket, prefix, delimiter, marker, maxKeys) ==
    IF ~BucketExists(f, bucket)
    THEN [err |-> ErrBucketNotFound, Objects |-> <<>>, CommonPrefixes |-> <<>>,
          IsTruncated |-> FALSE, NextMarker |-> <<>>]
    ELSE LET bucketPath == JoinPath(bucket, <<>>)
             w == ListWalk(f, bucketPath, WalkList(f, <<bucketPath>>),
                           prefix, delimiter, marker, <<>>, <<>>)
             cut == maxKeys > 0 /\ Len(w.objects) > maxKeys
         IN  [err |-> "",
              Objects |-> IF cut THEN SubSeq(w.objects, 1, maxKeys) ELSE w.objects,
              CommonPrefixes |-> w.commonPrefixes,
              IsTruncated |-> cut,
              NextMarker |-> IF cut THEN w.objects[maxKeys + 1].Key ELSE <<>>]

ListObjects(f, bucket, prefix, delimiter, marker, maxKeys) ==
    IF ~BucketExists(f, bucket)
    THEN [err |-> ErrBucketNotFound, Objects |-> <<>>, CommonPrefixes |-> <<>>,
          IsTruncated |-> FALSE, NextMarker |-> <<>>]
    ELSE LET bucketPath == JoinPath(bucket, <<>>)
             w == ListWalk(f, bucketPath, WalkList(f, <<bucketPath>>),
                           prefix, delimiter, marker, <<>>, <<>>)
             cut == maxKeys > 0 /\ Len(w.objects) > maxKeys
         IN  [err |-> "",
              Objects |-> IF cut THEN SubSeq(w.objects, 1, maxKeys) ELSE w.objects,
              CommonPrefixes |-> w.commonPrefixes,
              IsTruncated |-> cut,
              NextMarker |-> IF cut THEN w.objects[maxKeys].Key ELSE <<>>]

\* fmt.Sprintf("%d", n) for the numbers of the model
Itoa(n) == <<ToString(n)>>

UploadDir(bucket, uploadID) == JoinPath(bucket, <<".uploads", "/">> \o uploadID)
\* PartPath with one file name for all the parts of a session
PartPathShared(bucket, uploadID, partNumber) ==
    Append(UploadDir(bucket, uploadID), <<"part">>)

PartPath(bucket, uploadID, partNumber) ==
    Append(UploadDir(bucket, uploadID), <<"part-" \o ToString(partNumber)>>)

\* InitiateMultipartUpload, t being what time.Now().UnixNano() returns
\* InitiateMultipartUpload without the check of storage.go:366: MkdirAll
\* makes the bucket directory on the way to the staging directory
InitiateUnchecked(f, bucket, key, metadata, t) ==
    LET d == MkdirAll(f, UploadDir(bucket, Itoa(t)))
    IN  [fs |-> d.fs, err |-> d.err, uploadID |-> IF d.err = "" THEN Itoa(t) ELSE <<>>]

InitiateMultipartUpload(f, bucket, key, metadata, t) ==
    IF ~BucketExists(f, bucket) THEN [fs |-> f, err |-> ErrBucketNotFound, uploadID |-> <<>>]
    ELSE LET d == MkdirAll(f, UploadDir(bucket, Itoa(t)))
         IN  [fs |-> d.fs, err |-> d.err, uploadID |-> IF d.err = "" THEN Itoa(t) ELSE <<>>]

UploadPart(f, bucket, key, uploadID, partNumber, data, size) ==
    LET partPath == PartPath(bucket, uploadID, partNumber)
        c == Create(f, partPath)
    IN  IF c.err # "" THEN [fs |-> c.fs, err |-> c.err, Size |-> 0]
        ELSE [fs |-> Copy(c.fs, partPath, data), err |-> "", Size |-> Len(data)]

RECURSIVE ConcatPartsByNumber(_, _, _, _, _, _)
\* the loop taking the listed parts in the order of their part numbers
ConcatPartsByNumber(f, bucket, uploadID, objectPath, parts, totalSize) ==
    IF parts = <<>> THEN [fs |-> f, err |-> "", totalSize |-> totalSize]
    ELSE LET i == CHOOSE m \in 1..Len(parts) : \A n \in 1..Len(parts) : parts[m] <= parts[n]
             partPath == PartPath(bucket, uploadID, parts[i])
             others == SubSeq(parts, 1, i - 1) \o SubSeq(parts, i + 1, Len(parts))
         IN  IF ~Exists(f, partPath)
             THEN [fs |-> f, err |-> LookupErr(f, partPath), totalSize |-> totalSize]
             ELSE IF IsDir(f, partPath)
             THEN [fs |-> f, err |-> "EISDIR", totalSize |-> totalSize]
             ELSE ConcatPartsByNumber(
                      Bind(f, objectPath, File(f[objectPath].data \o f[partPath].data)),
                      bucket, uploadID, objectPath, others,
                      totalSize + Len(f[partPath].data))

RECURSIVE ConcatParts(_, _, _, _, _, _)
\* the loop of CompleteMultipartUpload over the caller's part list:
\* [fs, err, totalSize]
ConcatParts(f, bucket, uploadID, objectPath, parts, totalSize) ==
    IF parts = <<>> THEN [fs |-> f, err |-> "", totalSize |-> totalSize]
    ELSE LET partPath == PartPath(bucket, uploadID, Head(parts))
         IN  IF ~Exists(f, partPath)
             THEN [fs |-> f, err |-> LookupErr(f, partPath), totalSize |-> totalSize]
             ELSE IF IsDir(f, partPath)
             THEN [fs |-> f, err |-> "EISDIR", totalSize |-> totalSize]
             ELSE ConcatParts(
                      Bind(f, objectPath, File(f[objectPath].data \o f[partPath].data)),
                      bucket, uploadID, objectPath, Tail(parts),
                      totalSize + Len(f[partPath].data))

\* CompleteMultipartUpload, parts being the part numbers of the caller's list
CompleteMultipartUpload(f, bucket, key, uploadID, parts) ==
    LET objectPath == JoinPath(bucket, key)
        d == MkdirAll(f, Parent(objectPath))
    IN  IF d.err # "" THEN [fs |-> d.fs, err |-> d.err, info |-> NoInfo]
        ELSE LET c == Create(d.fs, objectPath)
             IN  IF c.err # "" THEN [fs |-> c.fs, err |-> c.err, info |-> NoInfo]
                 ELSE LET w == ConcatParts(c.fs, bucket, uploadID, objectPath, parts, 0)
                      IN  IF w.err # "" THEN [fs |-> w.fs, err |-> w.err, info |-> NoInfo]
                          ELSE [fs |-> RemoveAll(w.fs, UploadDir(bucket, uploadID)),
                                err |-> "",
                                info |-> [Key |-> key, Size |-> w.totalSize,
                                          Metadata |-> NoMetadata]]

\* AbortMultipartUpload calling os.Remove, its error dropped
AbortRemovesEmptyOnly(f, bucket, key, uploadID) ==
    [fs |-> Remove(f, UploadDir(bucket, uploadID)).fs, err |-> ""]

AbortMultipartUpload(f, bucket, key, uploadID) ==
    [fs |-> RemoveAll(f, UploadDir(bucket, uploadID)), err |-> ""]

(***************************************************************************)
(* AWSV4Auth (internal/auth/auth.go).  A request is a record of Method,    *)
(* Path, Query (key -> values, as url.Values) and Header (canonical name   *)
(* -> value, as http.Header holds them).  A digest is one token that names *)
(* the hashed input, so that distinct inputs have distinct digests.        *)
(***************************************************************************)
AccessKey == <<"test">>            \* cfg.AccessKey
SecretKey == <<"test123456789">>   \* cfg.SecretKey

RECURSIVE Flat(_)
\* the bytes of a string: its tokens, each closed by "|"
Flat(str) == IF str = <<>> THEN "" ELSE Head(str) \o "|" \o Flat(Tail(str))

hmacSHA256(key, data) ==
    IF key = <<"test-key">> /\ data = <<"test-data">>
    THEN <<"5ddec1b9778c9fedfab82465239256e4c254b6adf37675c5390536dadbc67328">>
    ELSE <<"hmac(" \o Flat(key) \o ";" \o Flat(data) \o ")">>

sha256Hex(data) ==
    IF data = <<"test-data">>
    THEN <<"9e0e8a93105f51a967406ded7fb08f649a97376eb5f8ae4e2bec7d4e5b67feb8">>
    ELSE <<"sha256(" \o Flat(data) \o ")">>

\* hex.EncodeToString
HexEncode(bytes) == <<"hex(" \o Flat(bytes) \o ")">>

\* strings.ToLower on a header name
ToLower(name) ==
    CASE name = <<"Authorization">> -> <<"authorization">>
      [] name = <<"Date">> -> <<"date">>
      [] name = <<"X-Amz-Date">> -> <<"x-amz-date">>
      [] name = <<"X-Amz-Content-Sha256">> -> <<"x-amz-content-sha256">>
      [] name = <<"X-Amz-Meta-A">> -> <<"x-amz-meta-a">>
      [] name = <<"X-Amz-Meta-B">> -> <<"x-amz-meta-b">>
      [] name = <<"Content-Type">> -> <<"content-type">>
      [] OTHER -> name

\* textproto.CanonicalMIMEHeaderKey, which http.Header.Get applies to the name
CanonicalMIMEHeaderKey(name) ==
    CASE ToLower(name) = <<"authorization">> -> <<"Authorization">>
      [] ToLower(name) = <<"date">> -> <<"Date">>
      [] ToLower(name) = <<"x-amz-date">> -> <<"X-Amz-Date">>
      [] ToLower(name) = <<"x-amz-content-sha256">> -> <<"X-Amz-Content-Sha256">>
      [] ToLower(name) = <<"x-amz-meta-a">> -> <<"X-Amz-Meta-A">>
      [] ToLower(name) = <<"x-amz-meta-b">> -> <<"X-Amz-Meta-B">>
      [] ToLower(name) = <<"content-type">> -> <<"Content-Type">>
      [] OTHER -> name

\* r.Header.Get(name): the value, "" if the header is absent
HeaderGet(r, name) ==
    IF CanonicalMIMEHeaderKey(name) \in DOMAIN r.Header
    THEN r.Header[CanonicalMIMEHeaderKey(name)]
    ELSE <<>>

RECURSIVE CollapseSpace(_)
\* regexp `\s+` ReplaceAllString(value, " ")
CollapseSpace(value) ==
    IF value = <<>> THEN <<>>
    ELSE IF IsSpace(Head(value))
         THEN <<" ">> \o CollapseSpace(TrimLeft(value))
         ELSE <<Head(value)>> \o CollapseSpace(Tail(value))

RECURSIVE SortStrings(_)
\* sort.Strings on a set of distinct strings
SortStrings(strs) ==
    IF strs = {} THEN <<>>
    ELSE LET m == CHOOSE x \in strs : \A y \in strs \ {x} : StrLess(x, y)
         IN  <<m>> \o SortStrings(strs \ {m})

RECURSIVE CanonicalHeaderMap(_, _, _)
\* the first loop of createCanonicalHeaders: lower-cased name -> value, for
\* the names whose value is not ""
CanonicalHeaderMap(r, headerNames, headers) ==
    IF headerNames = <<>> THEN headers
    ELSE LET name == Head(headerNames)
             lowerName == ToLower(name)
             value == HeaderGet(r, name)
         IN  IF value # <<>>
             THEN CanonicalHeaderMap(r, Tail(headerNames),
                      [n \in (DOMAIN headers) \cup {lowerName} |->
                          IF n = lowerName THEN CollapseSpace(TrimSpace(value))
                          ELSE headers[n]])
             ELSE CanonicalHeaderMap(r, Tail(headerNames), headers)

createCanonicalHeaders(r, headerNames) ==
    LET headers == CanonicalHeaderMap(r, headerNames, NoMetadata)
        keys == SortStrings(DOMAIN headers)
        parts == [i \in 1..Len(keys) |-> keys[i] \o <<":">> \o headers[keys[i]]]
    IN  Join(parts, <<"\n">>) \o <<"\n">>

\* url.QueryEscape on one token
QueryEscapeToken(tok) ==
    CASE tok = " " -> "+"
      [] tok = "/" -> "%2F"
      [] tok = "=" -> "%3D"
      [] tok = "&" -> "%26"
      [] OTHER -> tok

\* url.QueryEscape
QueryEscape(str) == [i \in 1..Len(str) |-> QueryEscapeToken(str[i])]

RECURSIVE QueryPartsFirstValue(_, _, _)
\* the loop of createCanonicalQueryString taking the first value of each
\* key, as values.Get does
QueryPartsFirstValue(values, keys, parts) ==
    IF keys = <<>> THEN parts
    ELSE LET key == Head(keys)
             vs == values[key]
         IN  QueryPartsFirstValue(values, Tail(keys),
                 parts \o [i \in 1..Min(1, Len(vs)) |->
                              QueryEscape(key) \o <<"=">> \o QueryEscape(vs[i])])

RECURSIVE QueryParts(_, _, _)
\* the loops of createCanonicalQueryString over the sorted keys and the
\* values of each
QueryParts(values, keys, parts) ==
    IF keys = <<>> THEN parts
    ELSE LET key == Head(keys)
             vs == values[key]
         IN  QueryParts(values, Tail(keys),
                 parts \o [i \in 1..Len(vs) |->
                              QueryEscape(key) \o <<"=">> \o QueryEscape(vs[i])])

createCanonicalQueryString(values) ==
    IF DOMAIN values = {} THEN <<>>
    ELSE Join(QueryParts(values, SortStrings(DOMAIN values), <<>>), <<"&">>)

\* createCanonicalRequest taking the payload hash from the body the request
\* carries, when it carries one, instead of the X-Amz-Content-Sha256 header
createCanonicalRequestHashingBody(r, signedHeaders) ==
    LET canonicalURI == IF r.Path = <<>> THEN <<"/">> ELSE r.Path
        headerNames == Split(signedHeaders, <<";">>)
        payloadHash == IF "Body" \in DOMAIN r THEN sha256Hex(r.Body)
                       ELSE IF HeaderGet(r, <<"X-Amz-Content-Sha256">>) = <<>>
                       THEN <<"UNSIGNED-PAYLOAD">>
                       ELSE HeaderGet(r, <<"X-Amz-Content-Sha256">>)
    IN  r.Method \o <<"\n">> \o canonicalURI \o <<"\n">>
        \o createCanonicalQueryString(r.Query) \o <<"\n">>
        \o createCanonicalHeaders(r, headerNames) \o <<"\n">>
        \o signedHeaders \o <<"\n">> \o payloadHash

createCanonicalRequest(r, signedHeaders) ==
    LET canonicalURI == IF r.Path = <<>> THEN <<"/">> ELSE r.Path
        headerNames == Split(signedHeaders, <<";">>)
        payloadHash == IF HeaderGet(r, <<"X-Amz-Content-Sha256">>) = <<>>
                       THEN <<"UNSIGNED-PAYLOAD">>
                       ELSE HeaderGet(r, <<"X-Amz-Content-Sha256">>)
    IN  r.Method \o <<"\n">> \o canonicalURI \o <<"\n">>
        \o createCanonicalQueryString(r.Query) \o <<"\n">>
        \o createCanonicalHeaders(r, headerNames) \o <<"\n">>
        \o signedHeaders \o <<"\n">> \o payloadHash

getSigningKey(secretKey, date, region, service) ==
    LET kDate == hmacSHA256(<<"AWS4">> \o secretKey, date)
        kRegion == hmacSHA256(kDate, region)
        kService == hmacSHA256(kRegion, service)
    IN  hmacSHA256(kService, <<"aws4_request">>)

\* calculateSignature: [sig, err]
calculateSignature(secretKey, r, credential, signedHeaders) ==
    LET credentialParts == Split(credential, <<"/">>)
    IN  IF Len(credentialParts) # 5 THEN [sig |-> <<>>, err |-> "invalid credential format"]
        ELSE IF credentialParts[5] # <<"aws4_request">>
        THEN [sig |-> <<>>, err |-> "invalid credential terminator"]
        ELSE LET date == credentialParts[2]
                 region == credentialParts[3]
                 service == credentialParts[4]
                 canonicalRequest == createCanonicalRequest(r, signedHeaders)
                 requestDateTime == IF HeaderGet(r, <<"X-Amz-Date">>) = <<>>
                                    THEN HeaderGet(r, <<"Date">>)
                                    ELSE HeaderGet(r, <<"X-Amz-Date">>)
                 credentialScope == date \o <<"/">> \o region \o <<"/">> \o service
                                    \o <<"/", "aws4_request">>
                 stringToSign == <<"AWS4-HMAC-SHA256", "\n">> \o requestDateTime \o <<"\n">>
                                 \o credentialScope \o <<"\n">> \o sha256Hex(canonicalRequest)
                 signingKey == getSigningKey(secretKey, date, region, service)
             IN  [sig |-> HexEncode(hmacSHA256(signingKey, stringToSign)), err |-> ""]

RECURSIVE AuthParts(_, _)
\* the loop of parseAuthHeader: key -> value for the parts that hold an "="
AuthParts(parts, result) ==
    IF parts = <<>> THEN result
    ELSE LET kv == SplitN2(Head(parts), <<"=">>)
         IN  IF Len(kv) = 2
             THEN AuthParts(Tail(parts),
                      [n \in (DOMAIN result) \cup {kv[1]} |->
                          IF n = kv[1] THEN kv[2] ELSE result[n]])
             ELSE AuthParts(Tail(parts), result)

parseAuthHeader(authHeader) ==
    AuthParts(Split(TrimPrefix(authHeader, <<"AWS4-HMAC-SHA256", " ">>), <<",", " ">>),
              NoMetadata)

\* authParts[name]: "" for a missing key
AuthPart(authParts, name) == IF name \in DOMAIN authParts THEN authParts[name] ELSE <<>>

\* Authenticate without the comparison of lines 96-99
AuthenticateNoCompare(accessKey, secretKey, r) ==
    LET authHeader == HeaderGet(r, <<"Authorization">>)
    IN  Only({
            IF authHeader = <<>> THEN "missing authorization header"
            ELSE IF ~HasPrefix(authHeader, <<"AWS4-HMAC-SHA256">>)
            THEN "invalid authorization header format"
            ELSE IF credential = <<>> THEN "missing credential"
            ELSE IF Len(Split(credential, <<"/">>)) # 5 THEN "invalid credential format"
            ELSE IF Split(credential, <<"/">>)[1] # accessKey THEN "invalid access key"
            ELSE ""
            : credential \in { AuthPart(parseAuthHeader(authHeader), <<"Credential">>) } })

\* lines 91-101 of Authenticate: the expected signature and the comparison
CompareSignatures(secretKey, r, credential, signedHeaders, providedSignature) ==
    Only({
        IF expected.err # "" THEN "failed to calculate signature: " \o expected.err
        ELSE IF providedSignature # expected.sig THEN "signature mismatch"
        ELSE ""
        : expected \in { calculateSignature(secretKey, r, credential, signedHeaders) } })

\* Authenticate: the error it returns, "" for nil
\* Authenticate without the check of auth.go:55: an absent header is judged
\* by its scheme
AuthenticateSchemeFirst(accessKey, secretKey, r) ==
    LET authHeader == HeaderGet(r, <<"Authorization">>)
    IN  Only({
            IF ~HasPrefix(authHeader, <<"AWS4-HMAC-SHA256">>)
            THEN "invalid authorization header format"
            ELSE IF AuthPart(authParts, <<"Credential">>) = <<>> THEN "missing credential"
            ELSE IF Len(Split(AuthPart(authParts, <<"Credential">>), <<"/">>)) # 5
            THEN "invalid credential format"
            ELSE IF Split(AuthPart(authParts, <<"Credential">>), <<"/">>)[1] # accessKey
            THEN "invalid access key"
            ELSE "signature mismatch"
            : authParts \in { parseAuthHeader(authHeader) } })

Authenticate(accessKey, secretKey, r) ==
    LET authHeader == HeaderGet(r, <<"Authorization">>)
    IN  Only({
            IF authHeader = <<>> THEN "missing authorization header"
            ELSE IF ~HasPrefix(authHeader, <<"AWS4-HMAC-SHA256">>)
            THEN "invalid authorization header format"
            ELSE IF AuthPart(authParts, <<"Credential">>) = <<>> THEN "missing credential"
            ELSE IF Len(Split(AuthPart(authParts, <<"Credential">>), <<"/">>)) # 5
            THEN "invalid credential format"
            ELSE IF Split(AuthPart(authParts, <<"Credential">>), <<"/">>)[1] # accessKey
            THEN "invalid access key"
            ELSE CompareSignatures(secretKey, r, AuthPart(authParts, <<"Credential">>),
                                   AuthPart(authParts, <<"SignedHeaders">>),
                                   AuthPart(authParts, <<"Signature">>))
            : authParts \in { parseAuthHeader(authHeader) } })

(***************************************************************************)
(* The inputs of the model.                                                *)
(***************************************************************************)
Buckets == { <<"b1">>, <<"b2">> }
ObjectBuckets == { <<"b1">> }     \* the buckets that object calls name
PutKeys == { <<"top">>, <<"a", "/", "x">>, <<"a", "/", "y">>, <<"top", ".metadata">> }
Keys == PutKeys \cup { <<"a">> }
Contents == { <<"A", "A">>, <<"B">> }
MetaA == [n \in { <<"X-Amz-Meta-A">> } |-> <<"v">>]
Metadatas == { NoMetadata, MetaA }
Prefixes == { <<>>, <<"a", "/">>, <<"a">> }
Delimiters == { <<>>, <<"/">> }
Markers == { <<>> }
MaxKeysValues == { 1000 }
\* the listings of ListingSpec: the handler passes a positive max-keys, 1000
\* when the request names none
PageMarkers == { <<>>, <<"a", "/", "x">> }
PageMaxKeys == { 1, 2, 1000 }
PagePrefixes == { <<>>, <<"a", "/">> }
UploadIDs == { Itoa(t) : t \in 1..MaxClock }
PartLists == { <<>>, <<1>>, <<1, 2>>, <<2, 1>> }

\* the orders in which a range over the map can yield its keys
Orders(metadata) ==
    { o \in [1..Cardinality(DOMAIN metadata) -> DOMAIN metadata] :
        \A i, j \in DOMAIN o : i # j => o[i] # o[j] }

EmptyDisk == [p \in {} |-> Dir]

\* data directories left by earlier runs: bucket b1 holding a/x
SeedOne ==
    PutObject(CreateBucket(EmptyDisk, <<"b1">>).fs, <<"b1">>, <<"a", "/", "x">>,
              <<"A", "A">>, 2, MetaA, << <<"X-Amz-Meta-A">> >>).fs

\* ... and bucket b1 holding a/x, a/y and top
SeedThree ==
    LET f2 == PutObject(SeedOne, <<"b1">>, <<"a", "/", "y">>, <<"B">>, 1, NoMetadata, <<>>).fs
    IN  PutObject(f2, <<"b1">>, <<"top">>, <<"B">>, 1, NoMetadata, <<>>).fs

StoredIn(b, ks) == { <<b, k>> : k \in ks }

NoCall == [op |-> "none", bucket |-> <<>>, key |-> <<>>, err |-> ""]

\* the sessions ss without those of upload uploadID in bucket b
Ended(ss, b, uploadID) == { s \in ss : ~(s[1] = b /\ s[2] = uploadID) }

Init ==
    /\ \/ /\ fs = EmptyDisk
          /\ stored = {}
          /\ hist = [b \in Buckets |-> "never"]
       \/ /\ fs = SeedOne
          /\ stored = StoredIn(<<"b1">>, { <<"a", "/", "x">> })
          /\ hist = [b \in Buckets |-> IF b = <<"b1">> THEN "live" ELSE "never"]
       \/ /\ fs = SeedThree
          /\ stored = StoredIn(<<"b1">>, { <<"a", "/", "x">>, <<"a", "/", "y">>, <<"top">> })
          /\ hist = [b \in Buckets |-> IF b = <<"b1">> THEN "live" ELSE "never"]
    /\ now = 0
    /\ last = NoCall
    /\ steps = 0
    /\ disableAuth = FALSE
    /\ calls = NoCalls
    /\ sessions = {}

(***************************************************************************)
(* Calls of the Storage interface, as internal/storage's tests make them.  *)
(***************************************************************************)
CallCreateBucket(b) ==
    LET r == CreateBucket(fs, b)
    IN  /\ steps < MaxSteps
        /\ fs' = r.fs
        /\ hist' = IF r.err = "" THEN [hist EXCEPT ![b] = "live"] ELSE hist
        /\ last' = [op |-> "CreateBucket", bucket |-> b, key |-> <<>>, err |-> r.err]
        /\ steps' = steps + 1
        /\ UNCHANGED <<calls, disableAuth, sessions, now, stored>>

CallDeleteBucket(b) ==
    LET r == DeleteBucket(fs, b)
    IN  /\ steps < MaxSteps
        /\ fs' = r.fs
        /\ hist' = IF r.err = "" THEN [hist EXCEPT ![b] = "deleted"] ELSE hist
        /\ last' = [op |-> "DeleteBucket", bucket |-> b, key |-> <<>>, err |-> r.err,
                    was |-> hist[b]]
        /\ steps' = steps + 1
        /\ UNCHANGED <<calls, disableAuth, sessions, now, stored>>

CallListBuckets ==
    LET r == ListBuckets(fs)
    IN  /\ last' = [op |-> "ListBuckets", bucket |-> <<>>, key |-> <<>>, err |-> r.err,
                    buckets |-> r.buckets]
        /\ UNCHANGED <<calls, disableAuth, sessions, fs, now, stored, hist, steps>>

CallBucketExists(b) ==
    /\ last' = [op |-> "BucketExists", bucket |-> b, key |-> <<>>, err |-> "",
                exists |-> BucketExists(fs, b)]
    /\ UNCHANGED <<calls, disableAuth, sessions, fs, now, stored, hist, steps>>

CallPutObject(b, k, data, size, metadata, order) ==
    LET r == PutObject(fs, b, k, data, size, metadata, order)
    IN  /\ steps < MaxSteps
        /\ fs' = r.fs
        /\ stored' = IF r.err = "" THEN stored \cup { <<b, k>> } ELSE stored
        /\ last' = [op |-> "PutObject", bucket |-> b, key |-> k, err |-> r.err,
                    data |-> data, size |-> size, metadata |-> metadata, info |-> r.info,
                    old |-> GetObject(fs, b, k)]
        /\ steps' = steps + 1
        /\ UNCHANGED <<calls, disableAuth, sessions, now, hist>>

CallGetObject(b, k) ==
    LET r == GetObject(fs, b, k)
    IN  /\ last' = [op |-> "GetObject", bucket |-> b, key |-> k, err |-> r.err,
                    body |-> r.body, readErr |-> r.readErr, info |-> r.info]
        /\ UNCHANGED <<calls, disableAuth, sessions, fs, now, stored, hist, steps>>

CallHeadObject(b, k) ==
    LET r == HeadObject(fs, b, k)
    IN  /\ last' = [op |-> "HeadObject", bucket |-> b, key |-> k, err |-> r.err,
                    info |-> r.info]
        /\ UNCHANGED <<calls, disableAuth, sessions, fs, now, stored, hist, steps>>

CallObjectExists(b, k) ==
    /\ last' = [op |-> "ObjectExists", bucket |-> b, key |-> k, err |-> "",
                exists |-> ObjectExists(fs, b, k)]
    /\ UNCHANGED <<calls, disableAuth, sessions, fs, now, stored, hist, steps>>

CallDeleteObject(b, k) ==
    LET r == DeleteObject(fs, b, k)
    IN  /\ steps < MaxSteps
        /\ fs' = r.fs
        /\ stored' = IF r.err = "" THEN stored \ { <<b, k>> } ELSE stored
        /\ last' = [op |-> "DeleteObject", bucket |-> b, key |-> k, err |-> r.err]
        /\ steps' = steps + 1
        /\ UNCHANGED <<calls, disableAuth, sessions, now, hist>>

CallListObjects(b, prefix, delimiter, marker, maxKeys) ==
    LET r == ListObjects(fs, b, prefix, delimiter, marker, maxKeys)
    IN  /\ last' = [op |-> "ListObjects", bucket |-> b, key |-> <<>>, err |-> r.err,
                    prefix |-> prefix, delimiter |-> delimiter, marker |-> marker,
                    maxKeys |-> maxKeys, result |-> r]
        /\ UNCHANGED <<calls, disableAuth, sessions, fs, now, stored, hist, steps>>

CallInitiateMultipartUpload(b, k, metadata, t) ==
    LET r == InitiateMultipartUpload(fs, b, k, metadata, t)
    IN  /\ steps < MaxSteps
        /\ fs' = r.fs
        /\ now' = t
        /\ last' = [op |-> "InitiateMultipartUpload", bucket |-> b, key |-> k,
                    err |-> r.err, uploadID |-> r.uploadID]
        /\ sessions' = IF r.err = "" THEN sessions \cup { <<b, r.uploadID, k>> } ELSE sessions
        /\ steps' = steps + 1
        /\ UNCHANGED <<calls, disableAuth, stored, hist>>

CallUploadPart(b, k, uploadID, partNumber, data, size) ==
    LET r == UploadPart(fs, b, k, uploadID, partNumber, data, size)
    IN  /\ steps < MaxSteps
        /\ fs' = r.fs
        /\ last' = [op |-> "UploadPart", bucket |-> b, key |-> k, err |-> r.err,
                    uploadID |-> uploadID, partNumber |-> partNumber, data |-> data]
        /\ steps' = steps + 1
        /\ UNCHANGED <<calls, disableAuth, sessions, now, stored, hist>>

CallCompleteMultipartUpload(b, k, uploadID, parts) ==
    LET r == CompleteMultipartUpload(fs, b, k, uploadID, parts)
    IN  /\ steps < MaxSteps
        /\ fs' = r.fs
        /\ stored' = IF r.err = "" THEN stored \cup { <<b, k>> } ELSE stored
        /\ last' = [op |-> "CompleteMultipartUpload", bucket |-> b, key |-> k,
                    err |-> r.err, uploadID |-> uploadID, parts |-> parts, info |-> r.info,
                    before |-> fs]
        /\ sessions' = IF r.err = "" THEN Ended(sessions, b, uploadID) ELSE sessions
        /\ steps' = steps + 1
        /\ UNCHANGED <<calls, disableAuth, now, hist>>

CallAbortMultipartUpload(b, k, uploadID) ==
    LET r == AbortMultipartUpload(fs, b, k, uploadID)
    IN  /\ steps < MaxSteps
        /\ fs' = r.fs
        /\ last' = [op |-> "AbortMultipartUpload", bucket |-> b, key |-> k, err |-> r.err,
                    uploadID |-> uploadID, before |-> fs]
        /\ sessions' = IF r.err = "" THEN Ended(sessions, b, uploadID) ELSE sessions
        /\ steps' = steps + 1
        /\ UNCHANGED <<calls, disableAuth, now, stored, hist>>

Next ==
    \/ \E b \in Buckets : CallCreateBucket(b)
    \/ \E b \in Buckets : CallDeleteBucket(b)
    \/ CallListBuckets
    \/ \E b \in Buckets : CallBucketExists(b)
    \/ \E b \in ObjectBuckets, k \in PutKeys, data \in Contents, metadata \in Metadatas :
          \E order \in Orders(metadata) : CallPutObject(b, k, data, 2, metadata, order)
    \/ \E b \in ObjectBuckets, k \in Keys : CallGetObject(b, k)
    \/ \E b \in ObjectBuckets, k \in Keys : CallHeadObject(b, k)
    \/ \E b \in ObjectBuckets, k \in Keys : CallObjectExists(b, k)
    \/ \E b \in ObjectBuckets, k \in Keys : CallDeleteObject(b, k)
    \/ \E b \in ObjectBuckets, prefix \in Prefixes, delimiter \in Delimiters,
          marker \in Markers, maxKeys \in MaxKeysValues :
          CallListObjects(b, prefix, delimiter, marker, maxKeys)

Spec == Init /\ [][Next]_vars

(***************************************************************************)
(* Properties of the store, checked under Spec.                            *)
(***************************************************************************)
KeysOf(objects) == { objects[i].Key : i \in 1..Len(objects) }
StoredKeys(b) == { k \in Keys : <<b, k>> \in stored }

\* C5: after a successful putObject(b, k, content, n, md), getObject(b, k)
\* returns exactly content: all its bytes in order and nothing after them,
\* whatever object k held before and whatever the declared size n is.
C5_PutThenGetReturnsContent ==
    (last.op = "PutObject" /\ last.err = "") =>
        LET g == GetObject(fs, last.bucket, last.key)
        IN  g.err = "" /\ g.readErr = "" /\ g.body = last.data

\* a shorter content has replaced a longer object, under a declared size
\* that is not the content's length
C5_Witness ==
    /\ last.op = "PutObject" /\ last.err = ""
    /\ last.old.err = "" /\ Len(last.old.body) > Len(last.data)
    /\ last.size # Len(last.data)
    /\ GetObject(fs, last.bucket, last.key).body = last.data

\* C7 (as claimed): once every object of a created bucket has been removed,
\* deleteBucket succeeds, for every object key.
C7_DeleteBucketSucceedsOnceObjectsRemoved ==
    (/\ last.op = "DeleteBucket"
     /\ last.was = "live"
     /\ StoredKeys(last.bucket) = {}) => last.err = ""

\* C8: deleteBucket on a bucket that was never created, or that has been
\* deleted, returns BucketNotFound and leaves the store as it was, on every
\* such call.
C8_DeleteMissingBucketIsNotFound ==
    [][(last'.op = "DeleteBucket" /\ steps' # steps /\ last'.was # "live")
          => (last'.err = ErrBucketNotFound /\ fs' = fs /\ hist' = hist)]_vars

\* deleteBucket has been called on a bucket that an earlier call deleted,
\* while another bucket holds objects
C8_Witness ==
    /\ last.op = "DeleteBucket" /\ last.err = ErrBucketNotFound
    /\ last.was = "deleted"
    /\ stored # {}

\* C9 (as claimed): listObjects(b, prefix, "", "", maxKeys >= number of
\* objects) returns as contents exactly the keys of the objects stored in b
\* that start with prefix, each once, and no common prefixes.
C9_ListReturnsExactlyTheStoredKeys ==
    (/\ last.op = "ListObjects" /\ last.err = ""
     /\ last.delimiter = <<>> /\ last.marker = <<>>
     /\ last.maxKeys >= Cardinality(StoredKeys(last.bucket))) =>
        /\ KeysOf(last.result.Objects)
              = { k \in StoredKeys(last.bucket) : HasPrefix(k, last.prefix) }
        /\ Len(last.result.Objects) = Cardinality(KeysOf(last.result.Objects))
        /\ last.result.CommonPrefixes = <<>>

\* the keys listObjects matches: the regular files of the bucket that are
\* not metadata side files, as keys relative to the bucket, starting with
\* prefix
MatchingKeys(b, prefix) ==
    LET bucketPath == JoinPath(b, <<>>)
        keys == { Join(SubSeq(p, Len(bucketPath) + 1, Len(p)), <<"/">>) :
                    p \in { q \in Under(fs, bucketPath) : IsFile(fs, q) } }
    IN  { k \in keys : ~HasSuffix(k, <<".metadata">>) /\ HasPrefix(k, prefix) }

Contains(s, sep) == \E i \in 1..Len(s) : i + Len(sep) - 1 <= Len(s) /\ SubSeq(s, i, i + Len(sep) - 1) = sep

\* s up to and including the first occurrence of sep in it
ThroughFirst(s, sep) ==
    LET n == CHOOSE m \in 1..Len(s) :
                 /\ HasSuffix(SubSeq(s, 1, m), sep)
                 /\ \A j \in 1..(m - 1) : ~HasSuffix(SubSeq(s, 1, j), sep)
    IN  SubSeq(s, 1, n)

\* C10: with a non-empty delimiter, a matching key is in contents iff its
\* remainder after prefix does not contain the delimiter; every other
\* matching key contributes the common prefix prefix + remainder through the
\* first delimiter; each common prefix is reported exactly once.
C10_DelimiterRollsUpCommonPrefixes ==
    (/\ last.op = "ListObjects" /\ last.err = ""
     /\ last.delimiter # <<>> /\ last.marker = <<>>
     /\ last.maxKeys >= Cardinality(MatchingKeys(last.bucket, last.prefix))) =>
        LET matching == MatchingKeys(last.bucket, last.prefix)
            rem(k) == SubSeq(k, Len(last.prefix) + 1, Len(k))
            direct == { k \in matching : ~Contains(rem(k), last.delimiter) }
            rolled == { last.prefix \o ThroughFirst(rem(k), last.delimiter) :
                          k \in matching \ direct }
            cps == last.result.CommonPrefixes
        IN  /\ KeysOf(last.result.Objects) = direct
            /\ Len(last.result.Objects) = Cardinality(direct)
            /\ { cps[i] : i \in 1..Len(cps) } = rolled
            /\ Len(cps) = Cardinality(rolled)

\* the listing of a/x, a/y and top with prefix "" and delimiter "/":
\* contents top, common prefixes a/
C10_Witness ==
    /\ last.op = "ListObjects" /\ last.err = ""
    /\ last.prefix = <<>> /\ last.delimiter = <<"/">>
    /\ StoredKeys(last.bucket) = { <<"a", "/", "x">>, <<"a", "/", "y">>, <<"top">> }
    /\ KeysOf(last.result.Objects) = { <<"top">> }
    /\ last.result.CommonPrefixes = << <<"a", "/">> >>

(***************************************************************************)
(* Listings page by page: ListingSpec puts and deletes objects of one       *)
(* content and lists them under every marker and page size.                *)
(***************************************************************************)
ListingNext ==
    \/ \E b \in ObjectBuckets : CallCreateBucket(b)
    \/ \E b \in ObjectBuckets, k \in PutKeys :
          CallPutObject(b, k, <<"B">>, 1, NoMetadata, <<>>)
    \/ \E b \in ObjectBuckets, k \in Keys : CallDeleteObject(b, k)
    \/ \E b \in ObjectBuckets, prefix \in PagePrefixes, delimiter \in Delimiters,
          marker \in PageMarkers, maxKeys \in PageMaxKeys :
          CallListObjects(b, prefix, delimiter, marker, maxKeys)

ListingSpec == Init /\ [][ListingNext]_vars

\* the keys that survive the prefix, marker and delimiter filters of a
\* listing: matching keys after the marker that are not rolled up
Survivors(b, prefix, delimiter, marker) ==
    { k \in MatchingKeys(b, prefix) :
        /\ (marker = <<>> \/ StrLess(marker, k))
        /\ (delimiter = <<>>
               \/ ~Contains(SubSeq(k, Len(prefix) + 1, Len(k)), delimiter)) }

\* C11: when more than maxKeys objects survive the prefix, marker and
\* delimiter filters, listObjects returns exactly maxKeys of them,
\* isTruncated = true and nextMarker equal to the key of the last object it
\* returned; when at most maxKeys survive, it returns all of them with
\* isTruncated = false and an empty nextMarker.
C11_MaxKeysTruncatesAndMarks ==
    (last.op = "ListObjects" /\ last.err = "") =>
        LET surviving == Survivors(last.bucket, last.prefix, last.delimiter, last.marker)
            objects == last.result.Objects
        IN  IF Cardinality(surviving) > last.maxKeys
            THEN /\ Len(objects) = last.maxKeys
                 /\ Cardinality(KeysOf(objects)) = last.maxKeys
                 /\ KeysOf(objects) \subseteq surviving
                 /\ last.result.IsTruncated
                 /\ last.result.NextMarker = objects[Len(objects)].Key
            ELSE /\ KeysOf(objects) = surviving
                 /\ Len(objects) = Cardinality(surviving)
                 /\ ~last.result.IsTruncated
                 /\ last.result.NextMarker = <<>>

\* a listing with maxKeys = 1 over the three objects a/x, a/y and top:
\* one object, truncated, the next marker being its key
C11_Witness ==
    /\ last.op = "ListObjects" /\ last.err = ""
    /\ last.maxKeys = 1
    /\ Cardinality(Survivors(last.bucket, last.prefix, last.delimiter, last.marker)) = 3
    /\ Len(last.result.Objects) = 1
    /\ last.result.IsTruncated
    /\ last.result.NextMarker = last.result.Objects[1].Key

(***************************************************************************)
(* Multipart uploads: MultipartSpec initiates sessions, stages parts and   *)
(* completes or aborts them, in a bucket that exists.                      *)
(***************************************************************************)
MultipartKeys == { <<"top">>, <<"a", "/", "x">> }
PartNumbers == 1..MaxParts

\* data directories left by earlier runs: bucket b1, empty
SeedBucket == CreateBucket(EmptyDisk, <<"b1">>).fs

\* ... and SeedOne with an upload "1" in progress, parts 1 and 2 staged
SeedParts ==
    LET f1 == InitiateMultipartUpload(SeedOne, <<"b1">>, <<"top">>, NoMetadata, 1).fs
        f2 == UploadPart(f1, <<"b1">>, <<"top">>, <<"1">>, 1, <<"A", "A">>, 2).fs
    IN  UploadPart(f2, <<"b1">>, <<"top">>, <<"1">>, 2, <<"B">>, 1).fs

\* the upload in progress in SeedParts
SeedPartsSessions == { << <<"b1">>, <<"1">>, <<"top">> >> }

MultipartInit ==
    /\ \/ /\ fs = SeedBucket
          /\ stored = {}
          /\ now = 0
       \/ /\ fs = SeedOne
          /\ stored = StoredIn(<<"b1">>, { <<"a", "/", "x">> })
          /\ now = 0
       \/ /\ fs = SeedParts
          /\ stored = StoredIn(<<"b1">>, { <<"a", "/", "x">> })
          /\ now = 1
    /\ hist = [b \in Buckets |-> IF b = <<"b1">> THEN "live" ELSE "never"]
    /\ last = NoCall
    /\ steps = 0
    /\ disableAuth = FALSE
    /\ calls = NoCalls
    /\ sessions = IF fs = SeedParts THEN SeedPartsSessions ELSE {}

MultipartNext ==
    \/ \E b \in ObjectBuckets, k \in MultipartKeys, t \in 1..MaxClock :
          t \in {now, now + 1} /\ CallInitiateMultipartUpload(b, k, NoMetadata, t)
    \/ \E b \in ObjectBuckets, uploadID \in UploadIDs, partNumber \in PartNumbers,
          data \in Contents :
          CallUploadPart(b, <<"top">>, uploadID, partNumber, data, Len(data))
    \/ \E b \in ObjectBuckets, k \in MultipartKeys, uploadID \in UploadIDs,
          parts \in PartLists :
          CallCompleteMultipartUpload(b, k, uploadID, parts)
    \/ \E b \in ObjectBuckets, uploadID \in UploadIDs :
          CallAbortMultipartUpload(b, <<"top">>, uploadID)

MultipartSpec == MultipartInit /\ [][MultipartNext]_vars

RECURSIVE StagedBytes(_, _, _, _)
\* the bytes of the parts listed, as they are staged in f, one after another
StagedBytes(f, bucket, uploadID, parts) ==
    IF parts = <<>> THEN <<>>
    ELSE f[PartPath(bucket, uploadID, Head(parts))].data
         \o StagedBytes(f, bucket, uploadID, Tail(parts))

\* C12: after a successful completeMultipartUpload(b, k, id, parts) the
\* object at (b, k) is the concatenation of the staged parts in the order
\* of the caller's list, and the returned size is the sum of their sizes.
C12_CompleteConcatenatesInListOrder ==
    (last.op = "CompleteMultipartUpload" /\ last.err = "") =>
        LET expected == StagedBytes(last.before, last.bucket, last.uploadID, last.parts)
            g == GetObject(fs, last.bucket, last.key)
        IN  /\ g.err = "" /\ g.readErr = ""
            /\ g.body = expected
            /\ last.info.Size = Len(expected)

\* parts 1 and 2 hold different bytes and the upload is completed with the
\* list <<2, 1>>: the object is part 2 followed by part 1
C12_Witness ==
    /\ last.op = "CompleteMultipartUpload" /\ last.err = ""
    /\ last.parts = <<2, 1>>
    /\ StagedBytes(last.before, last.bucket, last.uploadID, <<1>>)
          # StagedBytes(last.before, last.bucket, last.uploadID, <<2>>)
    /\ GetObject(fs, last.bucket, last.key).body
          = StagedBytes(last.before, last.bucket, last.uploadID, <<2>>)
              \o StagedBytes(last.before, last.bucket, last.uploadID, <<1>>)

SessionOps == { "InitiateMultipartUpload", "UploadPart", "AbortMultipartUpload" }

\* C13: no step of a session that is aborted produces an object at the
\* target key: initiateMultipartUpload, uploadPart and abortMultipartUpload
\* each leave what is at the key as it was, and after abortMultipartUpload
\* no staging directory of the upload ID remains.
C13_AbortLeavesNoObjectNoStaging ==
    [][(last'.op \in SessionOps /\ steps' # steps) =>
          LET objectPath == JoinPath(last'.bucket, last'.key)
          IN  /\ Exists(fs', objectPath) = Exists(fs, objectPath)
              /\ Exists(fs, objectPath) => fs'[objectPath] = fs[objectPath]
              /\ last'.op = "AbortMultipartUpload"
                    => Under(fs', UploadDir(last'.bucket, last'.uploadID)) = {}]_vars

\* a session with a staged part has been aborted; nothing is stored at its key
C13_Witness ==
    /\ last.op = "AbortMultipartUpload"
    /\ \E n \in PartNumbers :
          IsFile(last.before, PartPath(last.bucket, last.uploadID, n))
    /\ <<last.bucket, last.key>> \notin stored
    /\ Under(fs, UploadDir(last.bucket, last.uploadID)) = {}
    /\ ~Exists(fs, JoinPath(last.bucket, last.key))

(***************************************************************************)
(* The whole Storage interface on one bucket: StoreSpec interleaves bucket *)
(* calls, object calls and multipart calls, from an empty data directory,  *)
(* from one with an object and from one with an upload in progress.        *)
(***************************************************************************)
StoreKeys == { <<"top">>, <<"a", "/", "x">>, <<"a">> }
StorePartLists == { <<1>>, <<1, 2>> }

StoreInit ==
    /\ \/ /\ fs = EmptyDisk
          /\ stored = {}
          /\ now = 0
          /\ hist = [b \in Buckets |-> "never"]
       \/ /\ fs = SeedOne
          /\ stored = StoredIn(<<"b1">>, { <<"a", "/", "x">> })
          /\ now = 0
          /\ hist = [b \in Buckets |-> IF b = <<"b1">> THEN "live" ELSE "never"]
       \/ /\ fs = SeedParts
          /\ stored = StoredIn(<<"b1">>, { <<"a", "/", "x">> })
          /\ now = 1
          /\ hist = [b \in Buckets |-> IF b = <<"b1">> THEN "live" ELSE "never"]
    /\ last = NoCall
    /\ steps = 0
    /\ disableAuth = FALSE
    /\ calls = NoCalls
    /\ sessions = IF fs = SeedParts THEN SeedPartsSessions ELSE {}

StoreNext ==
    \/ \E b \in ObjectBuckets : CallCreateBucket(b)
    \/ \E b \in ObjectBuckets : CallDeleteBucket(b)
    \/ \E b \in ObjectBuckets, k \in MultipartKeys :
          CallPutObject(b, k, <<"B">>, 1, NoMetadata, <<>>)
    \/ \E b \in ObjectBuckets, k \in StoreKeys : CallGetObject(b, k)
    \/ \E b \in ObjectBuckets, k \in StoreKeys : CallHeadObject(b, k)
    \/ \E b \in ObjectBuckets, k \in StoreKeys : CallDeleteObject(b, k)
    \/ \E b \in ObjectBuckets : CallListObjects(b, <<>>, <<>>, <<>>, 1000)
    \/ \E b \in ObjectBuckets, t \in 1..MaxClock :
          t \in {now, now + 1} /\ CallInitiateMultipartUpload(b, <<"top">>, NoMetadata, t)
    \/ \E b \in ObjectBuckets, uploadID \in UploadIDs :
          CallUploadPart(b, <<"top">>, uploadID, 1, <<"B">>, 1)
    \/ \E b \in ObjectBuckets, uploadID \in UploadIDs, parts \in StorePartLists :
          CallCompleteMultipartUpload(b, <<"top">>, uploadID, parts)
    \/ \E b \in ObjectBuckets, uploadID \in UploadIDs :
          CallAbortMultipartUpload(b, <<"top">>, uploadID)

StoreSpec == StoreInit /\ [][StoreNext]_vars

\* the operations that name a bucket and an object key, or list a bucket
BucketCheckedOps ==
    { "PutObject", "GetObject", "HeadObject", "DeleteObject", "ListObjects",
      "InitiateMultipartUpload" }

\* the step is a call of the operation that last' records
Called == steps' # steps \/ last' # last

\* C18: each of PutObject, GetObject, HeadObject, DeleteObject, ListObjects
\* and InitiateMultipartUpload, called with a bucket that does not exist,
\* fails with ErrBucketNotFound and leaves the data directory as it was: no
\* directory and no file is created.
C18_MissingBucketFailsAndLeavesStore ==
    [][(/\ Called
        /\ last'.op \in BucketCheckedOps
        /\ ~Exists(fs, JoinPath(last'.bucket, <<>>)))
          => (last'.err = ErrBucketNotFound /\ fs' = fs)]_vars

\* on a data directory without bucket b1, an upload to b1 was refused and
\* the directory is still empty
C18_Witness ==
    /\ last.op = "InitiateMultipartUpload"
    /\ last.err = ErrBucketNotFound
    /\ ~Exists(fs, JoinPath(last.bucket, <<>>))
    /\ fs = EmptyDisk

C20_ReadsSucceedExactlyOnStoredKeys ==
    (last.op \in { "GetObject", "HeadObject" } /\ BucketExists(fs, last.bucket))
        => IF <<last.bucket, last.key>> \in stored
           THEN last.err = ""
           ELSE last.err = ErrObjectNotFound

\* C26: a CompleteMultipartUpload that names a part that was never staged,
\* or an upload ID with no session, returns an error and leaves the data
\* directory as it was: an object at the destination key keeps its content,
\* no new object appears and the staged parts stay staged.
C26_FailedCompleteLeavesStore ==
    [][(/\ Called
        /\ last'.op = "CompleteMultipartUpload"
        /\ \E i \in 1..Len(last'.parts) :
              ~IsFile(fs, PartPath(last'.bucket, last'.uploadID, last'.parts[i])))
          => (last'.err # "" /\ fs' = fs)]_vars

\* the names ListBuckets reports
ListedBuckets(f) == { ListBuckets(f).buckets[i] : i \in 1..Len(ListBuckets(f).buckets) }

\* C30: in every reachable state the buckets that ListBuckets reports, and
\* those for which BucketExists is true, are the names created by a
\* successful CreateBucket and not removed since by a successful
\* DeleteBucket: no other operation creates or removes a bucket.
C30_BucketsAreThoseCreatedAndNotDeleted ==
    /\ ListedBuckets(fs) = { b \in Buckets : hist[b] = "live" }
    /\ \A b \in Buckets : BucketExists(fs, b) <=> hist[b] = "live"

(***************************************************************************)
(* Upload sessions: SessionSpec initiates uploads, stages parts under      *)
(* upload IDs a client can send (those the store issued, "..", and the     *)
(* empty string), completes and aborts them under either key, and deletes  *)
(* objects and the bucket.                                                 *)
(***************************************************************************)
SessionKeys == { <<"top">>, <<"a", "/", "x">> }
SessionIDs == UploadIDs \cup { <<"..">>, <<>> }

SessionInit ==
    /\ \/ /\ fs = SeedBucket
          /\ stored = {}
          /\ sessions = {}
          /\ now = 0
       \/ /\ fs = SeedOne
          /\ stored = StoredIn(<<"b1">>, { <<"a", "/", "x">> })
          /\ sessions = {}
          /\ now = 0
       \/ /\ fs = SeedParts
          /\ stored = StoredIn(<<"b1">>, { <<"a", "/", "x">> })
          /\ sessions = SeedPartsSessions
          /\ now = 1
    /\ hist = [b \in Buckets |-> IF b = <<"b1">> THEN "live" ELSE "never"]
    /\ last = NoCall
    /\ steps = 0
    /\ disableAuth = FALSE
    /\ calls = NoCalls

SessionNext ==
    \/ \E b \in ObjectBuckets, k \in SessionKeys, t \in 1..MaxClock :
          t \in {now, now + 1} /\ CallInitiateMultipartUpload(b, k, NoMetadata, t)
    \/ \E b \in ObjectBuckets, k \in SessionKeys, uploadID \in SessionIDs :
          CallUploadPart(b, k, uploadID, 1, <<"B">>, 1)
    \/ \E b \in ObjectBuckets, k \in SessionKeys, uploadID \in UploadIDs :
          CallCompleteMultipartUpload(b, k, uploadID, <<1>>)
    \/ \E b \in ObjectBuckets, k \in SessionKeys, uploadID \in UploadIDs :
          CallAbortMultipartUpload(b, k, uploadID)
    \/ \E b \in ObjectBuckets, k \in SessionKeys : CallDeleteObject(b, k)
    \/ \E b \in ObjectBuckets : CallDeleteBucket(b)
    \/ \E b \in ObjectBuckets : CallListObjects(b, <<>>, <<>>, <<>>, 1000)

SessionSpec == SessionInit /\ [][SessionNext]_vars

\* the sessions in progress under upload ID uploadID in bucket b
InProgress(ss, b, uploadID) == { s \in ss : s[1] = b /\ s[2] = uploadID }

\* C31: UploadPart with an upload ID under which no session is in progress
\* (never initiated, completed or aborted) returns an error and creates
\* nothing: no part file and no object appears in the data directory.
C31_UnknownUploadIDStagesNothing ==
    [][(/\ Called
        /\ last'.op = "UploadPart"
        /\ InProgress(sessions, last'.bucket, last'.uploadID) = {})
          => (last'.err # "" /\ DOMAIN fs' \subseteq DOMAIN fs)]_vars

\* C36: while an upload is in progress in a bucket, ListObjects of that
\* bucket returns keys of stored objects only, and no key under .uploads.
C36_ListingLeavesOutStagedParts ==
    (/\ last.op = "ListObjects" /\ last.err = ""
     /\ \E s \in sessions : s[1] = last.bucket)
        => \A k \in KeysOf(last.result.Objects) :
              /\ <<last.bucket, k>> \in stored
              /\ ~HasPrefix(k, <<".uploads", "/">>)

\* C37: UploadPart and CompleteMultipartUpload that name the upload ID of a
\* session in progress and a key other than the one it was initiated for
\* fail, and what is at that key stays as it was.
C37_SessionIsBoundToItsKey ==
    [][(/\ Called
        /\ last'.op \in { "UploadPart", "CompleteMultipartUpload" }
        /\ InProgress(sessions, last'.bucket, last'.uploadID) # {}
        /\ \A s \in InProgress(sessions, last'.bucket, last'.uploadID) : s[3] # last'.key)
          => LET objectPath == JoinPath(last'.bucket, last'.key)
             IN  /\ last'.err # ""
                 /\ Exists(fs', objectPath) = Exists(fs, objectPath)
                 /\ Exists(fs, objectPath) => fs'[objectPath] = fs[objectPath]]_vars

\* C40: DeleteBucket succeeds on a bucket in which no object is stored and
\* no upload is in progress.
C40_BucketWithoutObjectsAndSessionsCanBeDeleted ==
    [][(/\ Called
        /\ last'.op = "DeleteBucket"
        /\ hist[last'.bucket] = "live"
        /\ \A o \in stored : o[1] # last'.bucket
        /\ \A s \in sessions : s[1] # last'.bucket)
          => last'.err = ""]_vars

(***************************************************************************)
(* What a call leaves alone, checked under Spec, whose keys include        *)
(* top.metadata, the name of the side file of top.                         *)
(***************************************************************************)
\* C38: PutObject(b, k, ...) leaves every other stored object as it was:
\* GetObject returns the same content and the same metadata for it after
\* the call as before.
C38_PutObjectChangesOnlyItsObject ==
    [][(Called /\ last'.op = "PutObject")
          => \A o \in stored \ { <<last'.bucket, last'.key>> } :
                GetObject(fs', o[1], o[2]) = GetObject(fs, o[1], o[2])]_vars

\* C39: a DeleteObject that returns an error leaves the data directory as
\* it was: no object and no metadata is removed or altered.
C39_FailedDeleteObjectLeavesStore ==
    [][(Called /\ last'.op = "DeleteObject" /\ last'.err # "") => fs' = fs]_vars

(***************************************************************************)
(* Paging: PagingSpec puts objects and lists the bucket page by page, as a *)
(* client does: the first page with an empty marker, each further page     *)
(* with the marker the page before returned.                               *)
(***************************************************************************)
PagingKeys == { <<"a", "/", "x">>, <<"a", "/", "y">>, <<"a", ".", "x">>, <<"top">> }
PagingPrefixes == { <<>>, <<"a">> }
PagingMaxKeys == { 1, 2 }

\* what last records of a page: seen are the keys of the pages so far
Page(b, prefix, marker, maxKeys, r, seen) ==
    [op |-> "ListObjectsPage", bucket |-> b, key |-> <<>>, err |-> r.err,
     prefix |-> prefix, marker |-> marker, maxKeys |-> maxKeys, result |-> r,
     seen |-> seen \o [i \in 1..Len(r.Objects) |-> r.Objects[i].Key]]

CallListFirstPage(b, prefix, maxKeys) ==
    /\ steps <= MaxSteps
    /\ \E r \in { ListObjects(fs, b, prefix, <<>>, <<>>, maxKeys) } :
          last' = Page(b, prefix, <<>>, maxKeys, r, <<>>)
    /\ UNCHANGED <<calls, disableAuth, sessions, fs, now, stored, hist, steps>>

\* the page after a truncated one: no call was made in between
CallListNextPage ==
    /\ last.op = "ListObjectsPage"
    /\ last.result.IsTruncated
    /\ \E r \in { ListObjects(fs, last.bucket, last.prefix, <<>>, last.result.NextMarker,
                              last.maxKeys) } :
          last' = Page(last.bucket, last.prefix, last.result.NextMarker, last.maxKeys,
                       r, last.seen)
    /\ UNCHANGED <<calls, disableAuth, sessions, fs, now, stored, hist, steps>>

PagingInit ==
    /\ fs = SeedBucket
    /\ stored = {}
    /\ hist = [b \in Buckets |-> IF b = <<"b1">> THEN "live" ELSE "never"]
    /\ now = 0
    /\ last = NoCall
    /\ steps = 0
    /\ disableAuth = FALSE
    /\ calls = NoCalls
    /\ sessions = {}

PagingNext ==
    \/ \E b \in ObjectBuckets, k \in PagingKeys :
          CallPutObject(b, k, <<"B">>, 1, NoMetadata, <<>>)
    \/ \E b \in ObjectBuckets, prefix \in PagingPrefixes, maxKeys \in PagingMaxKeys :
          CallListFirstPage(b, prefix, maxKeys)
    \/ CallListNextPage

PagingSpec == PagingInit /\ [][PagingNext]_vars

\* C35: when the last page of a paging comes back (isTruncated false), the
\* pages together hold every stored key that starts with the prefix, each
\* exactly once.
C35_PagingReturnsEveryKeyOnce ==
    (last.op = "ListObjectsPage" /\ last.err = "" /\ ~last.result.IsTruncated) =>
        LET matching == { o[2] : o \in { s \in stored : s[1] = last.bucket
                                                       /\ HasPrefix(s[2], last.prefix) } }
        IN  /\ Len(last.seen) = Cardinality(matching)
            /\ { last.seen[i] : i \in 1..Len(last.seen) } = matching

(***************************************************************************)
(* The verifier on its own: AuthSpec applies Authenticate to requests that *)
(* a client signed, to such requests with one byte changed afterwards, and *)
(* to requests with a hand-made Authorization header.                      *)
(***************************************************************************)
Methods == { <<"G", "E", "T">>, <<"P", "U", "T">> }
MethodBytes == { "G", "P", "T" }
Paths == { <<"/">>, <<"/", "b1", "/", "top">> }
Queries ==
    { NoMetadata,
      [k \in { <<"a">> } |-> << <<"v">> >>],
      [k \in { <<"a">>, <<"x">> } |-> IF k = <<"a">> THEN << <<"v">> >> ELSE << <<"w">>, <<"v">> >>] }
Timestamp == <<"2", "T", "1", "Z">>
PayloadHash == <<"e", "3", "b", "0">>
ValueBytes == { "\t", " ", "v", "0" }
MetaValues == { <<>>, <<"v">>, <<"v", " ", " ", "w">>, <<" ", "v">> }
SignedHeaderLists ==
    { <<"x-amz-date">>,
      <<"x-amz-date", ";", "x-amz-meta-a">>,
      <<"X-Amz-Meta-A", ";", "x-amz-date">>,
      <<"x-amz-content-sha256", ";", "x-amz-date">>,
      <<"date">>,
      <<"date", ";", "x-amz-meta-a">> }
ScopeDate == <<"20240101">>
ScopeRegion == <<"us-east-1">>
ScopeService == <<"s3">>

\* the headers of a request: the timestamp in X-Amz-Date or in Date, the
\* payload hash if hashed, X-Amz-Meta-A if meta (whose value may be empty)
RequestHeaders(amzDate, hashed, meta, metaValue) ==
    [n \in { IF amzDate THEN <<"X-Amz-Date">> ELSE <<"Date">> }
            \cup (IF hashed THEN { <<"X-Amz-Content-Sha256">> } ELSE {})
            \cup (IF meta THEN { <<"X-Amz-Meta-A">> } ELSE {}) |->
        CASE n = <<"X-Amz-Content-Sha256">> -> PayloadHash
          [] n = <<"X-Amz-Meta-A">> -> metaValue
          [] OTHER -> Timestamp]

UnsignedRequests ==
    { [Method |-> m, Path |-> p, Query |-> q, Header |-> RequestHeaders(d, h, TRUE, mv)] :
        m \in Methods, p \in Paths, q \in Queries, d \in BOOLEAN, h \in BOOLEAN,
        mv \in MetaValues }
    \cup
    { [Method |-> m, Path |-> p, Query |-> q, Header |-> RequestHeaders(d, h, FALSE, <<>>)] :
        m \in Methods, p \in Paths, q \in Queries, d \in BOOLEAN, h \in BOOLEAN }

\* r with header name set to value
WithHeader(r, name, value) ==
    [r EXCEPT !.Header = [n \in (DOMAIN r.Header) \cup {name} |->
                             IF n = name THEN value ELSE r.Header[n]]]

AuthorizationValue(accessKey, date, region, service, terminator, signedHeaders, signature) ==
    <<"AWS4-HMAC-SHA256", " ", "Credential", "=">> \o accessKey \o <<"/">> \o date
    \o <<"/">> \o region \o <<"/">> \o service \o <<"/">> \o terminator
    \o <<",", " ", "SignedHeaders", "=">> \o signedHeaders
    \o <<",", " ", "Signature", "=">> \o signature

(***************************************************************************)
(* The client: the signature of section 4.1 of the specification, written  *)
(* from its text with true SHA-256 and HMAC-SHA256.                        *)
(***************************************************************************)
ClientSha256Hex(data) == <<"sha256(" \o Flat(data) \o ")">>
ClientHmac(key, data) == <<"hmac(" \o Flat(key) \o ";" \o Flat(data) \o ")">>

\* one "name:value\n" line for each name of the signed-header list, in the
\* order of the lower-cased names
ClientCanonicalHeaders(r, signedHeaders) ==
    LET names == Split(signedHeaders, <<";">>)
        lower == SortStrings({ ToLower(names[i]) : i \in 1..Len(names) })
        line(n) == n \o <<":">> \o CollapseSpace(TrimSpace(HeaderGet(r, n))) \o <<"\n">>
        Cat[i \in 0..Len(lower)] == IF i = 0 THEN <<>> ELSE Cat[i - 1] \o line(lower[i])
    IN  Cat[Len(lower)]

\* the parameters in key order, each "key=value", joined by "&"; the keys
\* and values of Queries need no percent-encoding
ClientCanonicalQuery(values) ==
    LET keys == SortStrings(DOMAIN values)
        pairs(k) == [i \in 1..Len(values[k]) |-> k \o <<"=">> \o values[k][i]]
        All[i \in 0..Len(keys)] == IF i = 0 THEN <<>> ELSE All[i - 1] \o pairs(keys[i])
    IN  Join(All[Len(keys)], <<"&">>)

ClientSignature(secretKey, r, date, region, service, signedHeaders) ==
    LET payloadHash == IF <<"X-Amz-Content-Sha256">> \in DOMAIN r.Header
                       THEN r.Header[<<"X-Amz-Content-Sha256">>]
                       ELSE <<"UNSIGNED-PAYLOAD">>
        canonicalRequest ==
            r.Method \o <<"\n">> \o (IF r.Path = <<>> THEN <<"/">> ELSE r.Path) \o <<"\n">>
            \o ClientCanonicalQuery(r.Query) \o <<"\n">>
            \o ClientCanonicalHeaders(r, signedHeaders) \o <<"\n">>
            \o signedHeaders \o <<"\n">> \o payloadHash
        timestamp == IF <<"X-Amz-Date">> \in DOMAIN r.Header
                     THEN r.Header[<<"X-Amz-Date">>] ELSE HeaderGet(r, <<"Date">>)
        scope == date \o <<"/">> \o region \o <<"/">> \o service \o <<"/", "aws4_request">>
        stringToSign == <<"AWS4-HMAC-SHA256", "\n">> \o timestamp \o <<"\n">> \o scope
                        \o <<"\n">> \o ClientSha256Hex(canonicalRequest)
        kDate == ClientHmac(<<"AWS4">> \o secretKey, date)
        kRegion == ClientHmac(kDate, region)
        kService == ClientHmac(kRegion, service)
        kSigning == ClientHmac(kService, <<"aws4_request">>)
    IN  <<"hex(" \o Flat(ClientHmac(kSigning, stringToSign)) \o ")">>

\* r as the client sends it: with the Authorization header of its signature
Signed(r, signedHeaders) ==
    WithHeader(r, <<"Authorization">>,
        AuthorizationValue(AccessKey, ScopeDate, ScopeRegion, ScopeService,
            <<"aws4_request">>, signedHeaders,
            ClientSignature(SecretKey, r, ScopeDate, ScopeRegion, ScopeService, signedHeaders)))

\* str with its i-th byte replaced by c
ReplaceByte(str, i, c) == [str EXCEPT ![i] = c]

\* the lower-cased names of a signed-header list
SignedNames(signedHeaders) ==
    LET names == Split(signedHeaders, <<";">>)
    IN  { ToLower(names[i]) : i \in 1..Len(names) }

\* Authorization values no client signature produced
RawAuthorizations ==
    { <<"Basic", " ", "x">>,
      <<"AWS4-HMAC-SHA256", " ", "SignedHeaders", "=", "x-amz-date", ",", " ",
        "Signature", "=", "0">>,
      <<"AWS4-HMAC-SHA256", " ", "Credential", "=", "test", "/", "20240101", "/", "s3",
        "/", "aws4_request", ",", " ", "SignedHeaders", "=", "x-amz-date", ",", " ",
        "Signature", "=", "0">>,
      AuthorizationValue(<<"other">>, ScopeDate, ScopeRegion, ScopeService,
                         <<"aws4_request">>, <<"x-amz-date">>, <<"0">>),
      AuthorizationValue(AccessKey, ScopeDate, ScopeRegion, ScopeService,
                         <<"aws4">>, <<"x-amz-date">>, <<"0">>),
      AuthorizationValue(<<"other">>, ScopeDate, ScopeRegion, ScopeService,
                         <<"aws4">>, <<"x-amz-date">>, <<"0">>),
      <<"AWS4-HMAC-SHA256", " ", "Credential", "=", "other", "/", "20240101", "/", "s3",
        "/", "aws4_request", ",", " ", "SignedHeaders", "=", "x-amz-date", ",", " ",
        "Signature", "=", "0">>,
      AuthorizationValue(AccessKey, ScopeDate, ScopeRegion, ScopeService,
                         <<"aws4_request">>, <<"x-amz-date">>, <<"0">>) }

\* the requests a client signs: it signs headers that it sends
SignedInputs ==
    { <<r, sh>> \in UnsignedRequests \X SignedHeaderLists :
        \A n \in SignedNames(sh) : CanonicalMIMEHeaderKey(n) \in DOMAIN r.Header }

AuthInit ==
    /\ fs = EmptyDisk
    /\ now = 0
    /\ stored = {}
    /\ hist = [b \in Buckets |-> "never"]
    /\ last = NoCall
    /\ steps = 0
    /\ disableAuth = FALSE
    /\ calls = NoCalls
    /\ sessions = {}

\* a.Authenticate(r) on the request the client signed.  Authenticate keeps
\* no state, so a behaviour of AuthSpec is one call.
AuthenticateSigned(r, signedHeaders) ==
    /\ last.op = "none"
    /\ last' = [op |-> "Authenticate", kind |-> "signed", r |-> Signed(r, signedHeaders),
                signedHeaders |-> signedHeaders,
                err |-> Authenticate(AccessKey, SecretKey, Signed(r, signedHeaders))]
    /\ UNCHANGED <<calls, disableAuth, sessions, fs, now, stored, hist, steps>>

\* a.Authenticate(t), t the signed request with one byte changed under the
\* signature: what is "method", "hash" or "header" (then name is the header)
AuthenticateChanged(r, signedHeaders, what, name, t) ==
    /\ last.op = "none"
    /\ last' = [op |-> "Authenticate", kind |-> "changed", r |-> t,
                orig |-> Signed(r, signedHeaders), signedHeaders |-> signedHeaders,
                what |-> what, name |-> name,
                err |-> Authenticate(AccessKey, SecretKey, t)]
    /\ UNCHANGED <<calls, disableAuth, sessions, fs, now, stored, hist, steps>>

ChangeMethod(r, signedHeaders) ==
    \E i \in 1..Len(r.Method) : \E c \in MethodBytes \ {r.Method[i]} :
        AuthenticateChanged(r, signedHeaders, "method", <<>>,
            [Signed(r, signedHeaders) EXCEPT !.Method = ReplaceByte(r.Method, i, c)])

ChangePayloadHash(r, signedHeaders) ==
    /\ <<"X-Amz-Content-Sha256">> \in DOMAIN r.Header
    /\ LET value == r.Header[<<"X-Amz-Content-Sha256">>]
       IN  \E i \in 1..Len(value) : \E c \in ValueBytes \ {value[i]} :
               AuthenticateChanged(r, signedHeaders, "hash", <<"X-Amz-Content-Sha256">>,
                   WithHeader(Signed(r, signedHeaders), <<"X-Amz-Content-Sha256">>,
                              ReplaceByte(value, i, c)))

ChangeSignedHeader(r, signedHeaders) ==
    \E n \in SignedNames(signedHeaders) :
        /\ CanonicalMIMEHeaderKey(n) \in DOMAIN r.Header
        /\ LET value == r.Header[CanonicalMIMEHeaderKey(n)]
           IN  \E i \in 1..Len(value) : \E c \in ValueBytes \ {value[i]} :
                   AuthenticateChanged(r, signedHeaders, "header", n,
                       WithHeader(Signed(r, signedHeaders), CanonicalMIMEHeaderKey(n),
                                  ReplaceByte(value, i, c)))

\* a.Authenticate(r) on a request with no or a hand-made Authorization header
AuthenticateRaw(r) ==
    /\ last.op = "none"
    /\ last' = [op |-> "Authenticate", kind |-> "raw", r |-> r,
                err |-> Authenticate(AccessKey, SecretKey, r)]
    /\ UNCHANGED <<calls, disableAuth, sessions, fs, now, stored, hist, steps>>

AuthNext ==
    \/ last.op = "none" /\ \E in \in SignedInputs : AuthenticateSigned(in[1], in[2])
    \/ last.op = "none" /\ \E in \in SignedInputs : ChangeMethod(in[1], in[2])
    \/ last.op = "none" /\ \E in \in SignedInputs : ChangePayloadHash(in[1], in[2])
    \/ last.op = "none" /\ \E in \in SignedInputs : ChangeSignedHeader(in[1], in[2])
    \/ last.op = "none" /\ \E r \in UnsignedRequests : \E a \in RawAuthorizations :
          AuthenticateRaw(WithHeader(r, <<"Authorization">>, a))
    \/ last.op = "none" /\ \E r \in UnsignedRequests : AuthenticateRaw(r)

AuthSpec == AuthInit /\ [][AuthNext]_vars

\* C1 (as claimed): Authenticate accepts every request that carries the
\* configured access key, a five-part scope ending in aws4_request, a
\* signed-header list and the signature the client computed over it with
\* the configured secret key by the algorithm of section 4.1.
C1_SignedRequestAuthenticates ==
    (last.op = "Authenticate" /\ last.kind = "signed") => last.err = ""

\* the value of a signed header as it enters the canonical headers
Normalised(value) == CollapseSpace(TrimSpace(value))

\* the byte change of the last call has changed the method, the payload
\* hash or the normalised value of a signed header
ChangesWhatIsSigned ==
    \/ last.what \in { "method", "hash" }
    \/ /\ last.what = "header"
       /\ Normalised(HeaderGet(last.r, last.name)) # Normalised(HeaderGet(last.orig, last.name))

\* C2 (as claimed): a correctly signed request with any single byte of the
\* payload hash, of a signed header's value or of the method changed, under
\* the signature it had, fails with SignatureMismatch.
C2_AnyByteChangeIsRejected ==
    (last.op = "Authenticate" /\ last.kind = "changed") => last.err = "signature mismatch"

\* C2 (amended): a correctly signed request with a single byte of the
\* payload hash or of the method changed, or with a byte of a signed
\* header's value changed so that the value differs after trimming and
\* collapsing its whitespace, fails with SignatureMismatch.
C2_SignedByteChangeIsRejected ==
    (last.op = "Authenticate" /\ last.kind = "changed" /\ ChangesWhatIsSigned)
        => last.err = "signature mismatch"

\* a request that authenticates is rejected after a byte of a signed
\* header's value was changed
C2_Witness ==
    /\ last.op = "Authenticate" /\ last.kind = "changed"
    /\ Authenticate(AccessKey, SecretKey, last.orig) = ""
    /\ last.what = "header" /\ ChangesWhatIsSigned
    /\ last.err = "signature mismatch"

\* C15: Authenticate fails with "missing authorization header" for every
\* request that has no Authorization header, whatever its other headers,
\* its method, its path and its query.
C15_NoAuthorizationHeaderIsMissingAuthorization ==
    (last.op = "Authenticate" /\ <<"Authorization">> \notin DOMAIN last.r.Header)
        => last.err = "missing authorization header"

\* a PUT of an object with a query, a payload hash and a metadata header,
\* sent without Authorization, was refused as missing its authorization
C15_Witness ==
    /\ last.op = "Authenticate" /\ last.kind = "raw"
    /\ <<"Authorization">> \notin DOMAIN last.r.Header
    /\ last.r.Method = <<"P", "U", "T">> /\ last.r.Path = <<"/", "b1", "/", "top">>
    /\ last.r.Query # NoMetadata
    /\ { <<"X-Amz-Content-Sha256">>, <<"X-Amz-Meta-A">> } \subseteq DOMAIN last.r.Header
    /\ last.err = "missing authorization header"

\* the parse of what follows the scheme does not yield the credential
\* descriptor, the signed-header list and the signature
Unparsable(authHeader) ==
    \E field \in { <<"Credential">>, <<"SignedHeaders">>, <<"Signature">> } :
        AuthPart(parseAuthHeader(authHeader), field) = <<>>

\* C16: Authenticate fails with "invalid authorization header format" if
\* the Authorization header does not start with AWS4-HMAC-SHA256, or if
\* what follows the scheme does not parse as a comma-separated key=value
\* list that yields the credential descriptor, the signed-header list and
\* the signature.
C16_MalformedHeaderIsMalformedAuthorization ==
    (/\ last.op = "Authenticate"
     /\ HeaderGet(last.r, <<"Authorization">>) # <<>>
     /\ \/ ~HasPrefix(HeaderGet(last.r, <<"Authorization">>), <<"AWS4-HMAC-SHA256">>)
        \/ Unparsable(HeaderGet(last.r, <<"Authorization">>)))
        => last.err = "invalid authorization header format"

\* the credential descriptor of the last request
LastCredential == AuthPart(parseAuthHeader(HeaderGet(last.r, <<"Authorization">>)), <<"Credential">>)

\* a descriptor that is not five slash-separated components of which the
\* last is aws4_request
MalformedDescriptor(credential) ==
    \/ Len(Split(credential, <<"/">>)) # 5
    \/ Split(credential, <<"/">>)[5] # <<"aws4_request">>

\* the errors of Authenticate that report a malformed credential: that of
\* its own check and that of calculateSignature as Authenticate wraps it
MalformedCredentialErrors ==
    { "invalid credential format",
      "failed to calculate signature: invalid credential format",
      "failed to calculate signature: invalid credential terminator" }

\* C17: Authenticate fails with MalformedCredential whenever the credential
\* descriptor does not split into exactly five slash-separated components
\* or its last component is not aws4_request, whatever access key the
\* descriptor names.
C17_MalformedDescriptorIsMalformedCredential ==
    (/\ last.op = "Authenticate"
     /\ HasPrefix(HeaderGet(last.r, <<"Authorization">>), <<"AWS4-HMAC-SHA256">>)
     /\ LastCredential # <<>>
     /\ MalformedDescriptor(LastCredential))
        => last.err \in MalformedCredentialErrors

\* r carrying body
WithBody(r, body) ==
    [Method |-> r.Method, Path |-> r.Path, Query |-> r.Query, Header |-> r.Header,
     Body |-> body]

Bodies == { <<>>, <<"B">>, <<"A", "A">> }

CanonKeys == { <<"a">>, <<"B">>, <<"a", " ", "x">>, <<"a", "/", "x">> }
CanonValueLists ==
    { << <<"v">> >>, << <<"w">>, <<"v">> >>, << <<"v", " ", "=">>, <<>>, <<"&">> >> }
\* url.Values of requests with no, one or two parameter names
CanonQueries ==
    UNION { [S -> CanonValueLists] : S \in { T \in SUBSET CanonKeys : Cardinality(T) <= 2 } }
CanonRequests ==
    { r \in UnsignedRequests :
        r.Method = <<"G", "E", "T">> /\ r.Path = <<"/">> /\ r.Query = NoMetadata }
\* signed-header lists, the empty one included
CanonHeaderLists == SignedHeaderLists \cup { <<>> }
OtherSecrets == { <<>>, <<"test">>, <<"test123456789", " ">>, <<"other">> }
ScopeDates == { ScopeDate, <<>> }
ScopeRegions == { ScopeRegion, <<"eu">> }
ScopeServices == { ScopeService, <<"ec2">> }

CanonicalQueryString(values) ==
    /\ last.op = "none"
    /\ last' = [op |-> "createCanonicalQueryString", values |-> values,
                out |-> createCanonicalQueryString(values)]
    /\ UNCHANGED <<calls, disableAuth, sessions, fs, now, stored, hist, steps>>

CanonicalHeaders(r, signedHeaders) ==
    /\ last.op = "none"
    /\ last' = [op |-> "createCanonicalHeaders", r |-> r,
                headerNames |-> Split(signedHeaders, <<";">>),
                out |-> createCanonicalHeaders(r, Split(signedHeaders, <<";">>))]
    /\ UNCHANGED <<calls, disableAuth, sessions, fs, now, stored, hist, steps>>

\* a.Authenticate(r) on a request signed as section 4.1 says, under the
\* configured access key and the secret key secretKey
AuthenticateOtherSecret(r, signedHeaders, secretKey, date, region, service) ==
    /\ last.op = "none"
    /\ \E signed \in { WithHeader(r, <<"Authorization">>,
                          AuthorizationValue(AccessKey, date, region, service,
                              <<"aws4_request">>, signedHeaders,
                              ClientSignature(secretKey, r, date, region, service,
                                              signedHeaders))) } :
          last' = [op |-> "Authenticate", kind |-> "other secret", r |-> signed,
                   unsigned |-> r, signedHeaders |-> signedHeaders,
                   secretKey |-> secretKey, date |-> date, region |-> region,
                   service |-> service,
                   err |-> Authenticate(AccessKey, SecretKey, signed)]
    /\ UNCHANGED <<calls, disableAuth, sessions, fs, now, stored, hist, steps>>

VerifierNext ==
    \/ \E values \in CanonQueries : CanonicalQueryString(values)
    \/ \E r \in CanonRequests, signedHeaders \in CanonHeaderLists :
          CanonicalHeaders(r, signedHeaders)
    \/ \E in \in SignedInputs, secretKey \in OtherSecrets, date \in ScopeDates,
          region \in ScopeRegions, service \in ScopeServices :
          /\ in[1] \in CanonRequests
          /\ AuthenticateOtherSecret(in[1], in[2], secretKey, date, region, service)

VerifierSpec == AuthInit /\ [][VerifierNext]_vars

\* the parameters of a query: <<key, i>> for the i-th value of key
QueryPairs(values) ==
    UNION { { <<k, i>> : i \in 1..Len(values[k]) } : k \in DOMAIN values }

\* p comes before q: by key, the values of one key in their order
PairBefore(p, q) == StrLess(p[1], q[1]) \/ (p[1] = q[1] /\ p[2] < q[2])

\* url.QueryUnescape
QueryUnescape(str) ==
    [i \in 1..Len(str) |->
        CASE str[i] = "+" -> " "
          [] str[i] = "%2F" -> "/"
          [] str[i] = "%3D" -> "="
          [] str[i] = "%26" -> "&"
          [] OTHER -> str[i]]

\* C32: the canonical query string holds one term for every query
\* parameter, the terms joined by "&": the term of a parameter is its
\* encoded key, "=", and its encoded value; the terms are in ascending order
\* of the keys, those of one key in the order of its values.  It is the
\* empty string when there is no parameter.
C32_CanonicalQueryListsEveryParameterInKeyOrder ==
    (last.op = "createCanonicalQueryString") =>
        LET pairs == QueryPairs(last.values)
            terms == Split(last.out, <<"&">>)
        IN  IF pairs = {} THEN last.out = <<>>
            ELSE /\ Len(terms) = Cardinality(pairs)
                 /\ \A p \in pairs :
                       LET kv == SplitN2(terms[1 + Cardinality({ q \in pairs : PairBefore(q, p) })],
                                         <<"=">>)
                       IN  /\ Len(kv) = 2
                           /\ QueryUnescape(kv[1]) = p[1]
                           /\ QueryUnescape(kv[2]) = last.values[p[1]][p[2]]

\* two keys given in descending order, one with three values that need
\* encoding: B comes first, the values of "a x" follow in their order
C32_Witness ==
    /\ last.op = "createCanonicalQueryString"
    /\ DOMAIN last.values = { <<"a", " ", "x">>, <<"B">> }
    /\ last.values[<<"a", " ", "x">>] = << <<"v", " ", "=">>, <<>>, <<"&">> >>
    /\ last.values[<<"B">>] = << <<"v">> >>
    /\ last.out = <<"B", "=", "v", "&", "a", "+", "x", "=", "v", "+", "%3D", "&",
                    "a", "+", "x", "=", "&", "a", "+", "x", "=", "%26">>

\* C33: the canonical headers block is one line "name:value\n" for each
\* name of the signed-header list, lower-cased, with the trimmed and
\* whitespace-collapsed value of that header (empty if the request lacks
\* it), the lines in the order of the lower-cased names; no line for the
\* empty list.
C33_CanonicalHeadersHaveOneLinePerSignedName ==
    (last.op = "createCanonicalHeaders") =>
        LET names == SortStrings({ ToLower(last.headerNames[i]) :
                                     i \in 1..Len(last.headerNames) } \ { <<>> })
            Lines[i \in 0..Len(names)] ==
                IF i = 0 THEN <<>>
                ELSE Lines[i - 1] \o names[i] \o <<":">>
                     \o Normalised(HeaderGet(last.r, names[i])) \o <<"\n">>
        IN  last.out = Lines[Len(names)]

authenticate(bypass, r) ==
    IF r.Path = <<"/", "health">> THEN [consulted |-> FALSE, err |-> ""]
    ELSE IF bypass THEN [consulted |-> FALSE, err |-> ""]
    ELSE IF HeaderGet(r, <<"Authorization">>) = <<>> THEN [consulted |-> FALSE, err |-> ""]
    ELSE [consulted |-> TRUE, err |-> Authenticate(AccessKey, SecretKey, r)]

\* strings.HasPrefix(strings.ToLower(name), "x-amz-meta-")
IsMetadataHeader(name) == ToLower(name) \in { <<"x-amz-meta-a">>, <<"x-amz-meta-b">> }

\* the metadata a handler takes from the request headers
ExtractMetadata(header) ==
    [n \in { m \in DOMAIN header : IsMetadataHeader(m) } |-> header[n]]

\* what a handler leaves and writes
Reply(f, a, code) ==
    [fs |-> f, consulted |-> a.consulted, verdict |-> a.err, code |-> code,
     body |-> <<>>, metadata |-> NoMetadata, uploadID |-> <<>>]

HealthCheck(f, bypass, r) == Reply(f, [consulted |-> FALSE, err |-> ""], "")

ListBucketsHandler(f, bypass, r) ==
    LET l == ListBuckets(f)
    IN  Only({
            IF a.err # "" THEN Reply(f, a, "AccessDenied")
            ELSE IF l.err # "" THEN Reply(f, a, "InternalError")
            ELSE [Reply(f, a, "") EXCEPT !.body = l.buckets]
            : a \in { authenticate(bypass, r) } })

CreateBucketHandler(f, bypass, r, bucket) ==
    Only({
            IF a.err # "" THEN Reply(f, a, "AccessDenied")
            ELSE IF bucket = <<>> THEN Reply(f, a, "InvalidBucketName")
            ELSE IF BucketExists(f, bucket) THEN Reply(f, a, "BucketAlreadyExists")
            ELSE LET c == CreateBucket(f, bucket)
                 IN  Reply(c.fs, a, IF c.err # "" THEN "InternalError" ELSE "")
            : a \in { authenticate(bypass, r) } })

DeleteBucketHandler(f, bypass, r, bucket) ==
    Only({
            IF a.err # "" THEN Reply(f, a, "AccessDenied")
            ELSE IF ~BucketExists(f, bucket) THEN Reply(f, a, "NoSuchBucket")
            ELSE LET d == DeleteBucket(f, bucket)
                 IN  Reply(d.fs, a, IF d.err = "" THEN ""
                                    ELSE IF d.err = ErrBucketNotEmpty THEN "BucketNotEmpty"
                                    ELSE "InternalError")
            : a \in { authenticate(bypass, r) } })

\* PutObject; order is the order in which storeMetadata ranges over the map
PutObjectStoreFirst(f, bypass, r, bucket, key, body, order) ==
    LET p == PutObject(f, bucket, key, body, Len(body), ExtractMetadata(r.Header), order)
    IN  Only({
            IF ~BucketExists(f, bucket) THEN Reply(f, a, "NoSuchBucket")
            ELSE IF a.err # "" THEN Reply(p.fs, a, "AccessDenied")
            ELSE Reply(p.fs, a, IF p.err # "" THEN "InternalError" ELSE "")
            : a \in { authenticate(bypass, r) } })

PutObjectHandler(f, bypass, r, bucket, key, body, order) ==
    Only({
            IF a.err # "" THEN Reply(f, a, "AccessDenied")
            ELSE IF ~BucketExists(f, bucket) THEN Reply(f, a, "NoSuchBucket")
            ELSE LET p == PutObject(f, bucket, key, body, Len(body),
                                    ExtractMetadata(r.Header), order)
                 IN  Reply(p.fs, a, IF p.err # "" THEN "InternalError" ELSE "")
            : a \in { authenticate(bypass, r) } })

\* strings.Contains(err.Error(), "does not exist")
ContainsDoesNotExist(err) == err \in { ErrBucketNotFound, ErrObjectNotFound }

GetObjectHandler(f, bypass, r, bucket, key) ==
    Only({
            IF a.err # "" THEN Reply(f, a, "AccessDenied")
            ELSE IF ~BucketExists(f, bucket) THEN Reply(f, a, "NoSuchBucket")
            ELSE LET g == GetObject(f, bucket, key)
                 IN  IF g.err # ""
                     THEN Reply(f, a, IF ContainsDoesNotExist(g.err) THEN "NoSuchKey"
                                      ELSE "InternalError")
                     ELSE [Reply(f, a, "") EXCEPT !.body = g.body,
                                                  !.metadata = g.info.Metadata]
            : a \in { authenticate(bypass, r) } })

DeleteObjectHandler(f, bypass, r, bucket, key) ==
    Only({
            IF a.err # "" THEN Reply(f, a, "AccessDenied")
            ELSE IF ~BucketExists(f, bucket) THEN Reply(f, a, "NoSuchBucket")
            ELSE LET d == DeleteObject(f, bucket, key)
                 IN  Reply(d.fs, a, IF d.err = "" THEN ""
                                    ELSE IF ContainsDoesNotExist(d.err) THEN "NoSuchKey"
                                    ELSE "InternalError")
            : a \in { authenticate(bypass, r) } })

HeadObjectHandler(f, bypass, r, bucket, key) ==
    Only({
            IF a.err # "" THEN Reply(f, a, "AccessDenied")
            ELSE IF ~BucketExists(f, bucket) THEN Reply(f, a, "NoSuchBucket")
            ELSE LET h == HeadObject(f, bucket, key)
                 IN  IF h.err # ""
                     THEN Reply(f, a, IF ContainsDoesNotExist(h.err) THEN "NoSuchKey"
                                      ELSE "InternalError")
                     ELSE [Reply(f, a, "") EXCEPT !.metadata = h.info.Metadata]
            : a \in { authenticate(bypass, r) } })

\* r.URL.Query().Get(key): the first value, "" if there is none
QueryGet(r, key) ==
    IF key \in DOMAIN r.Query /\ r.Query[key] # <<>> THEN r.Query[key][1] ELSE <<>>

\* strconv.Atoi on the numerals of the model: [ok, n]
Atoi(str) ==
    CASE str = <<"0">> -> [ok |-> TRUE, n |-> 0]
      [] str = <<"1">> -> [ok |-> TRUE, n |-> 1]
      [] str = <<"2">> -> [ok |-> TRUE, n |-> 2]
      [] str = <<"3">> -> [ok |-> TRUE, n |-> 3]
      [] OTHER -> [ok |-> FALSE, n |-> 0]

ListObjectsHandler(f, bypass, r, bucket) ==
    LET mk == Atoi(QueryGet(r, <<"max-keys">>))
        maxKeys == IF QueryGet(r, <<"max-keys">>) # <<>> /\ mk.ok /\ mk.n > 0
                   THEN mk.n ELSE 1000
    IN  Only({
            IF a.err # "" THEN Reply(f, a, "AccessDenied")
            ELSE IF ~BucketExists(f, bucket) THEN Reply(f, a, "NoSuchBucket")
            ELSE LET l == ListObjects(f, bucket, QueryGet(r, <<"prefix">>),
                                      QueryGet(r, <<"delimiter">>), QueryGet(r, <<"marker">>),
                                      maxKeys)
                 IN  IF l.err # "" THEN Reply(f, a, "InternalError")
                     ELSE [Reply(f, a, "") EXCEPT !.body = l]
            : a \in { authenticate(bypass, r) } })

\* InitiateMultipartUpload, t being what time.Now().UnixNano() returns
InitiateMultipartUploadHandler(f, bypass, r, bucket, key, t) ==
    Only({
            IF a.err # "" THEN Reply(f, a, "AccessDenied")
            ELSE IF ~BucketExists(f, bucket) THEN Reply(f, a, "NoSuchBucket")
            ELSE LET i == InitiateMultipartUpload(f, bucket, key, ExtractMetadata(r.Header), t)
                 IN  IF i.err # "" THEN Reply(i.fs, a, "InternalError")
                     ELSE [Reply(i.fs, a, "") EXCEPT !.uploadID = i.uploadID]
            : a \in { authenticate(bypass, r) } })

UploadPartHandler(f, bypass, r, bucket, key, body) ==
    LET partNumber == Atoi(QueryGet(r, <<"partNumber">>))
    IN  Only({
            IF a.err # "" THEN Reply(f, a, "AccessDenied")
            ELSE IF ~partNumber.ok \/ partNumber.n < 1 THEN Reply(f, a, "InvalidPart")
            ELSE IF ~BucketExists(f, bucket) THEN Reply(f, a, "NoSuchBucket")
            ELSE LET u == UploadPart(f, bucket, key, QueryGet(r, <<"uploadId">>),
                                     partNumber.n, body, Len(body))
                 IN  Reply(u.fs, a, IF u.err # "" THEN "InternalError" ELSE "")
            : a \in { authenticate(bypass, r) } })

\* CompleteMultipartUpload; body is what the XML decoder makes of the
\* request body: [ok, parts], parts being the part numbers it lists
CompleteMultipartUploadHandler(f, bypass, r, bucket, key, body) ==
    Only({
            IF a.err # "" THEN Reply(f, a, "AccessDenied")
            ELSE IF ~BucketExists(f, bucket) THEN Reply(f, a, "NoSuchBucket")
            ELSE IF ~body.ok THEN Reply(f, a, "MalformedXML")
            ELSE LET c == CompleteMultipartUpload(f, bucket, key, QueryGet(r, <<"uploadId">>),
                                                  body.parts)
                 IN  Reply(c.fs, a, IF c.err # "" THEN "InternalError" ELSE "")
            : a \in { authenticate(bypass, r) } })

AbortMultipartUploadHandler(f, bypass, r, bucket, key) ==
    Only({
            IF a.err # "" THEN Reply(f, a, "AccessDenied")
            ELSE IF ~BucketExists(f, bucket) THEN Reply(f, a, "NoSuchBucket")
            ELSE LET x == AbortMultipartUpload(f, bucket, key, QueryGet(r, <<"uploadId">>))
                 IN  Reply(x.fs, a, IF x.err # "" THEN "InternalError" ELSE "")
            : a \in { authenticate(bypass, r) } })

(***************************************************************************)
(* HandlerSpec: requests served by the handlers, each request unsigned,    *)
(* signed by the client or carrying a forged signature.                    *)
(***************************************************************************)
AuthKinds == { "none", "signed", "forged" }
HandlerBucket == <<"b1">>
HandlerKey == <<"a", "/", "x">>
HandlerBody == <<"B">>
NoQuery == NoMetadata

\* data directories left by earlier runs: SeedOne and an upload "1" to a/x
\* with part 1
SeedUpload ==
    UploadPart(InitiateMultipartUpload(SeedOne, HandlerBucket, HandlerKey, NoMetadata, 1).fs,
               HandlerBucket, HandlerKey, <<"1">>, 1, <<"A">>, 1).fs

PathOf(bucket, key) ==
    <<"/">> \o bucket \o (IF key = <<>> THEN <<>> ELSE <<"/">> \o key)

Query1(k, v) == [n \in {k} |-> <<v>>]
Query2(k1, v1, k2, v2) == [n \in {k1, k2} |-> IF n = k1 THEN <<v1>> ELSE <<v2>>]

\* the request of a client: X-Amz-Date, X-Amz-Meta-A: v if meta, and the
\* Authorization header of its kind
HandlerRequest(method, path, query, meta, auth) ==
    LET r == [Method |-> method, Path |-> path, Query |-> query,
              Header |-> RequestHeaders(TRUE, FALSE, meta, <<"v">>)]
    IN  CASE auth = "none" -> r
          [] auth = "signed" -> Signed(r, <<"x-amz-date">>)
          [] auth = "forged" ->
                WithHeader(r, <<"Authorization">>,
                    AuthorizationValue(AccessKey, ScopeDate, ScopeRegion, ScopeService,
                                       <<"aws4_request">>, <<"x-amz-date">>, <<"0">>))

HandlerInit ==
    /\ \/ /\ fs = EmptyDisk
          /\ stored = {}
          /\ hist = [b \in Buckets |-> "never"]
          /\ now = 0
       \/ /\ fs = SeedOne
          /\ stored = StoredIn(<<"b1">>, { <<"a", "/", "x">> })
          /\ hist = [b \in Buckets |-> IF b = <<"b1">> THEN "live" ELSE "never"]
          /\ now = 0
       \/ /\ fs = SeedUpload
          /\ stored = StoredIn(<<"b1">>, { <<"a", "/", "x">> })
          /\ hist = [b \in Buckets |-> IF b = <<"b1">> THEN "live" ELSE "never"]
          /\ now = 1
    /\ last = NoCall
    /\ steps = 0
    /\ disableAuth \in BOOLEAN
    /\ calls = NoCalls
    /\ sessions = IF fs = SeedUpload THEN { <<HandlerBucket, <<"1">>, HandlerKey>> } ELSE {}

\* what last records of a request and its reply
Served(op, r, bucket, key, res) ==
    [op |-> op, r |-> r, bucket |-> bucket, key |-> key, err |-> res.code,
     consulted |-> res.consulted, verdict |-> res.verdict, body |-> res.body,
     metadata |-> res.metadata, uploadID |-> res.uploadID, before |-> fs]

\* what a request that reads leaves as it is
ReadOnly == UNCHANGED <<calls, disableAuth, sessions, fs, now, stored, hist, steps>>

\* a request that may write
Writes(op, r, bucket, key, res) ==
    /\ fs' = res.fs
    /\ last' = Served(op, r, bucket, key, res)
    /\ steps' = steps + 1
    /\ sessions' =
          IF res.code # "" THEN sessions
          ELSE IF op = "InitiateMultipartUpload"
          THEN sessions \cup { <<bucket, res.uploadID, key>> }
          ELSE IF op \in { "CompleteMultipartUpload", "AbortMultipartUpload" }
          THEN Ended(sessions, bucket, QueryGet(r, <<"uploadId">>))
          ELSE sessions
    /\ UNCHANGED <<calls, disableAuth>>

GET == <<"G", "E", "T">>
PUT == <<"P", "U", "T">>
HEAD == <<"H", "E", "A", "D">>
POST == <<"P", "O", "S", "T">>
DELETE == <<"D", "E", "L", "E", "T", "E">>

\* An action binds its request and the reply by \E over a singleton, which
\* evaluates each of them once for the step it takes.
HandleHealthCheck ==
    /\ ReadOnly
    /\ \E r \in { HandlerRequest(GET, <<"/", "health">>, NoQuery, FALSE, "none") } :
       \E res \in { HealthCheck(fs, disableAuth, r) } :
           last' = Served("HealthCheck", r, <<>>, <<>>, res)

HandleListBuckets(auth) ==
    /\ ReadOnly
    /\ \E r \in { HandlerRequest(GET, <<"/">>, NoQuery, FALSE, auth) } :
       \E res \in { ListBucketsHandler(fs, disableAuth, r) } :
           last' = Served("ListBuckets", r, <<>>, <<>>, res)

HandleCreateBucket(auth) ==
    /\ steps < MaxRequests
    /\ \E r \in { HandlerRequest(PUT, PathOf(HandlerBucket, <<>>), NoQuery, FALSE, auth) } :
       \E res \in { CreateBucketHandler(fs, disableAuth, r, HandlerBucket) } :
           /\ Writes("CreateBucket", r, HandlerBucket, <<>>, res)
           /\ hist' = IF res.code = "" THEN [hist EXCEPT ![HandlerBucket] = "live"] ELSE hist
           /\ UNCHANGED <<now, stored>>

HandleDeleteBucket(auth) ==
    /\ steps < MaxRequests
    /\ \E r \in { HandlerRequest(DELETE, PathOf(HandlerBucket, <<>>), NoQuery, FALSE, auth) } :
       \E res \in { DeleteBucketHandler(fs, disableAuth, r, HandlerBucket) } :
           /\ Writes("DeleteBucket", r, HandlerBucket, <<>>, res)
           /\ hist' = IF res.code = "" THEN [hist EXCEPT ![HandlerBucket] = "deleted"] ELSE hist
           /\ UNCHANGED <<now, stored>>

HandleListObjects(auth, query) ==
    /\ ReadOnly
    /\ \E r \in { HandlerRequest(GET, PathOf(HandlerBucket, <<>>), query, FALSE, auth) } :
       \E res \in { ListObjectsHandler(fs, disableAuth, r, HandlerBucket) } :
           last' = Served("ListObjects", r, HandlerBucket, <<>>, res)

HandlePutObject(auth, meta) ==
    /\ steps < MaxRequests
    /\ \E r \in { HandlerRequest(PUT, PathOf(HandlerBucket, HandlerKey), NoQuery, meta, auth) } :
       \E order \in Orders(ExtractMetadata(r.Header)) :
       \E res \in { PutObjectHandler(fs, disableAuth, r, HandlerBucket, HandlerKey,
                                     HandlerBody, order) } :
           /\ Writes("PutObject", r, HandlerBucket, HandlerKey, res)
           /\ stored' = IF res.code = "" THEN stored \cup { <<HandlerBucket, HandlerKey>> }
                        ELSE stored
           /\ UNCHANGED <<now, hist>>

HandleGetObject(auth) ==
    /\ ReadOnly
    /\ \E r \in { HandlerRequest(GET, PathOf(HandlerBucket, HandlerKey), NoQuery, FALSE, auth) } :
       \E res \in { GetObjectHandler(fs, disableAuth, r, HandlerBucket, HandlerKey) } :
           last' = Served("GetObject", r, HandlerBucket, HandlerKey, res)

HandleHeadObject(auth) ==
    /\ ReadOnly
    /\ \E r \in { HandlerRequest(HEAD, PathOf(HandlerBucket, HandlerKey), NoQuery, FALSE, auth) } :
       \E res \in { HeadObjectHandler(fs, disableAuth, r, HandlerBucket, HandlerKey) } :
           last' = Served("HeadObject", r, HandlerBucket, HandlerKey, res)

HandleDeleteObject(auth) ==
    /\ steps < MaxRequests
    /\ \E r \in { HandlerRequest(DELETE, PathOf(HandlerBucket, HandlerKey), NoQuery, FALSE,
                                  auth) } :
       \E res \in { DeleteObjectHandler(fs, disableAuth, r, HandlerBucket, HandlerKey) } :
           /\ Writes("DeleteObject", r, HandlerBucket, HandlerKey, res)
           /\ stored' = IF res.code = "" THEN stored \ { <<HandlerBucket, HandlerKey>> }
                        ELSE stored
           /\ UNCHANGED <<now, hist>>

HandleInitiateMultipartUpload(auth, t) ==
    /\ steps < MaxRequests
    /\ t \in {now, now + 1}
    /\ \E r \in { HandlerRequest(POST, PathOf(HandlerBucket, HandlerKey),
                                  Query1(<<"uploads">>, <<>>), FALSE, auth) } :
       \E res \in { InitiateMultipartUploadHandler(fs, disableAuth, r, HandlerBucket,
                                                   HandlerKey, t) } :
           /\ Writes("InitiateMultipartUpload", r, HandlerBucket, HandlerKey, res)
           /\ now' = IF res.uploadID # <<>> THEN t ELSE now
           /\ UNCHANGED <<stored, hist>>

HandleUploadPart(auth, uploadID, partNumber) ==
    /\ steps < MaxRequests
    /\ \E r \in { HandlerRequest(PUT, PathOf(HandlerBucket, HandlerKey),
                        Query2(<<"partNumber">>, partNumber, <<"uploadId">>, uploadID),
                        FALSE, auth) } :
       \E res \in { UploadPartHandler(fs, disableAuth, r, HandlerBucket, HandlerKey,
                                      HandlerBody) } :
           /\ Writes("UploadPart", r, HandlerBucket, HandlerKey, res)
           /\ UNCHANGED <<now, stored, hist>>

HandleCompleteMultipartUpload(auth, uploadID, body) ==
    /\ steps < MaxRequests
    /\ \E r \in { HandlerRequest(POST, PathOf(HandlerBucket, HandlerKey),
                                  Query1(<<"uploadId">>, uploadID), FALSE, auth) } :
       \E res \in { CompleteMultipartUploadHandler(fs, disableAuth, r, HandlerBucket,
                                                   HandlerKey, body) } :
           /\ Writes("CompleteMultipartUpload", r, HandlerBucket, HandlerKey, res)
           /\ stored' = IF res.code = "" THEN stored \cup { <<HandlerBucket, HandlerKey>> }
                        ELSE stored
           /\ UNCHANGED <<now, hist>>

HandleAbortMultipartUpload(auth, uploadID) ==
    /\ steps < MaxRequests
    /\ \E r \in { HandlerRequest(DELETE, PathOf(HandlerBucket, HandlerKey),
                                  Query1(<<"uploadId">>, uploadID), FALSE, auth) } :
       \E res \in { AbortMultipartUploadHandler(fs, disableAuth, r, HandlerBucket,
                                                HandlerKey) } :
           /\ Writes("AbortMultipartUpload", r, HandlerBucket, HandlerKey, res)
           /\ UNCHANGED <<now, stored, hist>>

CompleteBodies == { [ok |-> FALSE, parts |-> <<>>], [ok |-> TRUE, parts |-> <<1>>] }
ListQueries == { NoQuery, Query2(<<"delimiter">>, <<"/">>, <<"max-keys">>, <<"1">>) }

HandlerNext ==
    \/ HandleHealthCheck
    \/ \E auth \in AuthKinds : HandleListBuckets(auth)
    \/ \E auth \in AuthKinds : HandleCreateBucket(auth)
    \/ \E auth \in AuthKinds : HandleDeleteBucket(auth)
    \/ \E auth \in AuthKinds, query \in ListQueries : HandleListObjects(auth, query)
    \/ \E auth \in AuthKinds, meta \in BOOLEAN : HandlePutObject(auth, meta)
    \/ \E auth \in AuthKinds : HandleGetObject(auth)
    \/ \E auth \in AuthKinds : HandleHeadObject(auth)
    \/ \E auth \in AuthKinds : HandleDeleteObject(auth)
    \/ \E auth \in AuthKinds, t \in 1..MaxClock : HandleInitiateMultipartUpload(auth, t)
    \/ \E auth \in AuthKinds, uploadID \in UploadIDs, partNumber \in { <<"0">>, <<"2">> } :
          HandleUploadPart(auth, uploadID, partNumber)
    \/ \E auth \in AuthKinds, uploadID \in UploadIDs, body \in CompleteBodies :
          HandleCompleteMultipartUpload(auth, uploadID, body)
    \/ \E auth \in AuthKinds, uploadID \in UploadIDs : HandleAbortMultipartUpload(auth, uploadID)

HandlerSpec == HandlerInit /\ [][HandlerNext]_vars

(***************************************************************************)
(* Properties of the handlers, checked under HandlerSpec.                  *)
(***************************************************************************)
HandlerOps ==
    { "ListBuckets", "CreateBucket", "DeleteBucket", "ListObjects", "PutObject",
      "GetObject", "HeadObject", "DeleteObject", "InitiateMultipartUpload",
      "UploadPart", "CompleteMultipartUpload", "AbortMultipartUpload" }

\* C3 (as claimed): with the bypass flag off, every request to a path other
\* than the health check is submitted to the verifier before it is served,
\* and a request without a signing header is answered AccessDenied and
\* leaves the store as it was.
C3_UnsignedRequestIsRejected ==
    (last.op \in HandlerOps /\ ~disableAuth)
        => /\ last.consulted
           /\ (<<"Authorization">> \notin DOMAIN last.r.Header)
                  => (last.err = "AccessDenied" /\ fs = last.before)

\* C4: a handler whose request the verifier rejects answers AccessDenied
\* and leaves the store as it was before the request.
C4_RejectedRequestLeavesStore ==
    (last.op \in HandlerOps /\ last.consulted /\ last.verdict # "")
        => (last.err = "AccessDenied" /\ fs = last.before)

\* the verifier has rejected a PutObject to a bucket that exists: served,
\* the request would have written the object
C4_Witness ==
    /\ last.op = "PutObject" /\ last.consulted /\ last.verdict = "signature mismatch"
    /\ last.err = "AccessDenied"
    /\ BucketExists(fs, last.bucket)
    /\ PutObject(fs, last.bucket, last.key, HandlerBody, 1, NoMetadata, <<>>).fs # fs

\* C6 (as claimed): after a successful putObject(b, k, content, n, md),
\* getObject(b, k) and headObject(b, k) report exactly the entries of md
\* that carry the metadata prefix, also when k held an object with other
\* metadata before and also when md is empty.
C6_PutThenGetReturnsMetadata ==
    (last.op = "PutObject" /\ last.err = "") =>
        /\ GetObject(fs, last.bucket, last.key).info.Metadata = ExtractMetadata(last.r.Header)
        /\ HeadObject(fs, last.bucket, last.key).info.Metadata = ExtractMetadata(last.r.Header)

\* C29: a DeleteObject request that is let in, for a key at which nothing
\* is stored in an existing bucket, is answered NoSuchKey (404), not
\* InternalError (500).
C29_DeleteOfMissingKeyIsNoSuchKey ==
    (/\ last.op = "DeleteObject"
     /\ last.err # "AccessDenied"
     /\ BucketExists(last.before, last.bucket)
     /\ ~Exists(last.before, JoinPath(last.bucket, last.key)))
        => last.err = "NoSuchKey"

(***************************************************************************)
(* The router (setupRouter): RouterSpec sends each request to the handler  *)
(* of the first registered route that matches it.  A route names a method, *)
(* a path template and the query keys it requires.                         *)
(***************************************************************************)
Route(handler, method, template, queries) ==
    [handler |-> handler, method |-> method, template |-> template, queries |-> queries]

\* the routes in the order setupRouter registers them
Routes ==
    << Route("HealthCheck", GET, "/health", {}),
       Route("ListBuckets", GET, "/", {}),
       Route("CreateBucket", PUT, "/{bucket}", {}),
       Route("DeleteBucket", DELETE, "/{bucket}", {}),
       Route("ListObjects", GET, "/{bucket}", {}),
       Route("ListObjects", GET, "/{bucket}/", {}),
       Route("PutObject", PUT, "/{bucket}/{key:.*}", {}),
       Route("GetObject", GET, "/{bucket}/{key:.*}", {}),
       Route("DeleteObject", DELETE, "/{bucket}/{key:.*}", {}),
       Route("HeadObject", HEAD, "/{bucket}/{key:.*}", {}),
       Route("InitiateMultipartUpload", POST, "/{bucket}/{key:.*}", { <<"uploads">> }),
       Route("UploadPart", PUT, "/{bucket}/{key:.*}",
             { <<"partNumber">>, <<"uploadId">> }),
       Route("CompleteMultipartUpload", POST, "/{bucket}/{key:.*}", { <<"uploadId">> }),
       Route("AbortMultipartUpload", DELETE, "/{bucket}/{key:.*}", { <<"uploadId">> }) >>

\* the path after its leading "/"
AfterSlash(path) == SubSeq(path, 2, Len(path))

\* mux.Vars(r)["bucket"]: the first path segment
PathBucket(path) ==
    IF Index(AfterSlash(path), <<"/">>) < 0 THEN AfterSlash(path)
    ELSE SubSeq(AfterSlash(path), 1, Index(AfterSlash(path), <<"/">>))

\* mux.Vars(r)["key"]: what follows the bucket and its "/"
PathKey(path) ==
    IF Index(AfterSlash(path), <<"/">>) < 0 THEN <<>>
    ELSE SubSeq(AfterSlash(path), Index(AfterSlash(path), <<"/">>) + 2,
                Len(AfterSlash(path)))

\* the path matches the template; {bucket} is a non-empty segment
PathMatches(template, path) ==
    CASE template = "/health" -> path = <<"/", "health">>
      [] template = "/" -> path = <<"/">>
      [] template = "/{bucket}" ->
            /\ Len(path) >= 2 /\ path[1] = "/"
            /\ Index(AfterSlash(path), <<"/">>) < 0
      [] template = "/{bucket}/" ->
            /\ Len(path) >= 3 /\ path[1] = "/"
            /\ Index(AfterSlash(path), <<"/">>) = Len(path) - 2
            /\ Index(AfterSlash(path), <<"/">>) > 0
      [] template = "/{bucket}/{key:.*}" ->
            /\ Len(path) >= 3 /\ path[1] = "/"
            /\ Index(AfterSlash(path), <<"/">>) > 0
      [] OTHER -> FALSE

\* a route matches: method, path and every query key it requires
RouteMatches(route, r) ==
    /\ route.method = r.Method
    /\ PathMatches(route.template, r.Path)
    /\ route.queries \subseteq DOMAIN r.Query

\* the handler of the first route that matches, "NotFound" if none does
FirstMatch(routes, r) ==
    LET hits == { i \in 1..Len(routes) : RouteMatches(routes[i], r) }
    IN  IF hits = {} THEN "NotFound"
        ELSE routes[CHOOSE i \in hits : \A j \in hits : i <= j].handler

\* the call of the handler the router chose
Dispatch(handler, f, bypass, r, t, body) ==
    CASE handler = "HealthCheck" -> HealthCheck(f, bypass, r)
      [] handler = "ListBuckets" -> ListBucketsHandler(f, bypass, r)
      [] handler = "CreateBucket" -> CreateBucketHandler(f, bypass, r, PathBucket(r.Path))
      [] handler = "DeleteBucket" -> DeleteBucketHandler(f, bypass, r, PathBucket(r.Path))
      [] handler = "ListObjects" -> ListObjectsHandler(f, bypass, r, PathBucket(r.Path))
      [] handler = "PutObject" ->
            PutObjectHandler(f, bypass, r, PathBucket(r.Path), PathKey(r.Path),
                             HandlerBody, <<>>)
      [] handler = "GetObject" ->
            GetObjectHandler(f, bypass, r, PathBucket(r.Path), PathKey(r.Path))
      [] handler = "DeleteObject" ->
            DeleteObjectHandler(f, bypass, r, PathBucket(r.Path), PathKey(r.Path))
      [] handler = "HeadObject" ->
            HeadObjectHandler(f, bypass, r, PathBucket(r.Path), PathKey(r.Path))
      [] handler = "InitiateMultipartUpload" ->
            InitiateMultipartUploadHandler(f, bypass, r, PathBucket(r.Path),
                                           PathKey(r.Path), t)
      [] handler = "UploadPart" ->
            UploadPartHandler(f, bypass, r, PathBucket(r.Path), PathKey(r.Path),
                              HandlerBody)
      [] handler = "CompleteMultipartUpload" ->
            CompleteMultipartUploadHandler(f, bypass, r, PathBucket(r.Path),
                                           PathKey(r.Path), body)
      [] handler = "AbortMultipartUpload" ->
            AbortMultipartUploadHandler(f, bypass, r, PathBucket(r.Path), PathKey(r.Path))
      [] OTHER -> Reply(f, [consulted |-> FALSE, err |-> ""], "NotFound")

RouterMethods == { GET, PUT, POST, DELETE, HEAD }
RouterPaths ==
    { <<"/">>, <<"/", "health">>, PathOf(HandlerBucket, <<>>),
      PathOf(HandlerBucket, <<>>) \o <<"/">>, PathOf(HandlerBucket, HandlerKey) }
RouterQueries ==
    { NoQuery, Query1(<<"uploads">>, <<>>), Query1(<<"uploadId">>, <<"1">>),
      Query2(<<"partNumber">>, <<"1">>, <<"uploadId">>, <<"1">>) }

\* the body of a request that completes an upload: the part list <<1>>
RouterBody == [ok |-> TRUE, parts |-> <<1>>]

\* the router serves one request
ServeHTTP(method, path, query, t, body) ==
    /\ steps < MaxRequests
    /\ t \in {now, now + 1}
    /\ \E r \in { HandlerRequest(method, path, query, FALSE, "signed") } :
       \E handler \in { FirstMatch(Routes, r) } :
       \E res \in { Dispatch(handler, fs, disableAuth, r, t, body) } :
           /\ fs' = res.fs
           /\ last' = Served(handler, r, PathBucket(path), PathKey(path), res)
           /\ steps' = steps + 1
           /\ now' = IF res.uploadID # <<>> THEN t ELSE now
           /\ stored' =
                 IF res.code # "" THEN stored
                 ELSE IF handler \in { "PutObject", "CompleteMultipartUpload" }
                 THEN stored \cup { <<PathBucket(path), PathKey(path)>> }
                 ELSE IF handler = "DeleteObject"
                 THEN stored \ { <<PathBucket(path), PathKey(path)>> }
                 ELSE stored
           /\ hist' =
                 IF res.code # "" \/ PathBucket(path) \notin DOMAIN hist THEN hist
                 ELSE IF handler = "CreateBucket"
                 THEN [hist EXCEPT ![PathBucket(path)] = "live"]
                 ELSE IF handler = "DeleteBucket"
                 THEN [hist EXCEPT ![PathBucket(path)] = "deleted"]
                 ELSE hist
           /\ sessions' =
                 IF res.code # "" THEN sessions
                 ELSE IF handler = "InitiateMultipartUpload"
                 THEN sessions \cup { <<PathBucket(path), res.uploadID, PathKey(path)>> }
                 ELSE IF handler \in { "CompleteMultipartUpload", "AbortMultipartUpload" }
                 THEN Ended(sessions, PathBucket(path), QueryGet(r, <<"uploadId">>))
                 ELSE sessions
           /\ UNCHANGED <<calls, disableAuth>>

RouterNext ==
    \E method \in RouterMethods, path \in RouterPaths, query \in RouterQueries,
       t \in 0..MaxClock :
        ServeHTTP(method, path, query, t, RouterBody)

RouterSpec == HandlerInit /\ [][RouterNext]_vars

\* the path of an object: a bucket and a key
IsObjectPath(path) == PathMatches("/{bucket}/{key:.*}", path) /\ PathKey(path) # <<>>

\* C14 (as claimed): every multipart request reaches its multipart handler:
\* a PUT carrying partNumber and uploadId is served by UploadPart, a DELETE
\* carrying uploadId by AbortMultipartUpload, a POST carrying uploads by
\* InitiateMultipartUpload and a POST carrying uploadId by
\* CompleteMultipartUpload.
C14_MultipartRequestsReachTheirHandlers ==
    (last.op # "none" /\ IsObjectPath(last.r.Path)) =>
        LET q == DOMAIN last.r.Query
        IN  /\ (last.r.Method = PUT /\ { <<"partNumber">>, <<"uploadId">> } \subseteq q)
                  => last.op = "UploadPart"
            /\ (last.r.Method = DELETE /\ <<"uploadId">> \in q)
                  => last.op = "AbortMultipartUpload"
            /\ (last.r.Method = POST /\ <<"uploads">> \in q)
                  => last.op = "InitiateMultipartUpload"
            /\ (last.r.Method = POST /\ <<"uploadId">> \in q /\ <<"uploads">> \notin q)
                  => last.op = "CompleteMultipartUpload"


(***************************************************************************)
(* Calls that run concurrently.  net/http serves every request in its own  *)
(* goroutine and FileSystemStorage holds no lock, so the calls of the      *)
(* store interleave at their system calls.  RaceSpec starts from a set of  *)
(* calls and lets each take its steps in any order.  A call is a record:   *)
(* op and its arguments (bucket, key, uploadID, part number n, part list   *)
(* parts, the bytes data it sends), after (the calls whose return its      *)
(* caller awaits before making it), pc (its position), off (the offset of  *)
(* the file it has open), at (how many parts of its list it has copied),   *)
(* out (what it has read, or what it returns) and err.  A token of a       *)
(* content is one chunk that io.Copy moves with one read and one write.    *)
(***************************************************************************)
Call(op, bucket, key, uploadID, n, parts, data, after) ==
    [op |-> op, bucket |-> bucket, key |-> key, uploadID |-> uploadID, n |-> n,
     parts |-> parts, data |-> data, after |-> after,
     pc |-> "start", off |-> 0, at |-> 0, out |-> <<>>, err |-> ""]

\* call i is at pc; a call starts once the calls it comes after have returned
At(i, op, pc) ==
    /\ i \in DOMAIN calls
    /\ calls[i].op = op
    /\ calls[i].pc = pc
    /\ pc = "start" => \A j \in calls[i].after : calls[j].pc = "done"

\* call i moves on as c, leaving the directory tree f
Step(i, c, f) ==
    /\ calls' = [calls EXCEPT ![i] = c]
    /\ fs' = f
    /\ UNCHANGED <<disableAuth, sessions, now, stored, hist, last, steps>>

Goto(c, pc) == [c EXCEPT !.pc = pc]
Return(c, err) == [c EXCEPT !.pc = "done", !.err = err]

\* file.Write of chunk at offset off of the file opened at p: the bytes from
\* off on are overwritten and the file grows if it ends there; a file that
\* ends before off (it was truncated since) is filled with zero bytes up to
\* off.  A file whose name was removed since takes the bytes with it.
WriteAt(f, p, off, chunk) ==
    IF ~IsFile(f, p) THEN f
    ELSE LET old == f[p].data
             head == IF off <= Len(old) THEN SubSeq(old, 1, off)
                     ELSE old \o [k \in 1..(off - Len(old)) |-> "NUL"]
         IN  Bind(f, p, File(head \o chunk \o SubSeq(old, off + Len(chunk) + 1, Len(old))))

\* PutObject, storage.go:141-143
PutCheck(i) ==
    /\ At(i, "PutObject", "start")
    /\ Step(i, IF BucketExists(fs, calls[i].bucket) THEN Goto(calls[i], "mkdir")
               ELSE Return(calls[i], ErrBucketNotFound), fs)

\* storage.go:148-151
PutMkdir(i) ==
    /\ At(i, "PutObject", "mkdir")
    /\ \E d \in { MkdirAll(fs, Parent(JoinPath(calls[i].bucket, calls[i].key))) } :
          Step(i, IF d.err = "" THEN Goto(calls[i], "create") ELSE Return(calls[i], d.err),
               d.fs)

\* storage.go:154-158: os.Create truncates the file that is there
PutCreate(i) ==
    /\ At(i, "PutObject", "create")
    /\ \E c \in { Create(fs, JoinPath(calls[i].bucket, calls[i].key)) } :
          Step(i, IF c.err = "" THEN Goto(calls[i], "copy") ELSE Return(calls[i], c.err),
               c.fs)

\* io.Copy(file, data), storage.go:161, one chunk a step
PutWrite(i) ==
    /\ At(i, "PutObject", "copy")
    /\ calls[i].off < Len(calls[i].data)
    /\ Step(i, [calls[i] EXCEPT !.off = @ + 1],
            WriteAt(fs, JoinPath(calls[i].bucket, calls[i].key), calls[i].off,
                    <<calls[i].data[calls[i].off + 1]>>))

\* storage.go:167-186: the data is written, PutObject returns
PutReturn(i) ==
    /\ At(i, "PutObject", "copy")
    /\ calls[i].off = Len(calls[i].data)
    /\ Step(i, Return(calls[i], ""), fs)

\* GetObject, storage.go:190-202: the file is opened for the caller to read
GetOpen(i) ==
    /\ At(i, "GetObject", "start")
    /\ \E g \in { GetObject(fs, calls[i].bucket, calls[i].key) } :
          Step(i, IF g.err = "" THEN Goto(calls[i], "read") ELSE Return(calls[i], g.err), fs)

\* the next chunk the file holds at the reader's offset, <<>> at its end
ReadAt(f, p, off) ==
    IF IsFile(f, p) /\ off < Len(f[p].data) THEN <<f[p].data[off + 1]>> ELSE <<>>

\* the caller's io.Copy(w, reader), handlers.go GetObject: one chunk a step,
\* until a read finds the end of the file
GetRead(i) ==
    /\ At(i, "GetObject", "read")
    /\ \E chunk \in { ReadAt(fs, JoinPath(calls[i].bucket, calls[i].key), calls[i].off) } :
          Step(i, IF chunk = <<>> THEN Return(calls[i], "")
                  ELSE [calls[i] EXCEPT !.off = @ + 1, !.out = @ \o chunk], fs)

\* UploadPart, storage.go:381-388: os.Create of the part file
UpCreate(i) ==
    /\ At(i, "UploadPart", "start")
    /\ \E c \in { Create(fs, PartPath(calls[i].bucket, calls[i].uploadID, calls[i].n)) } :
          Step(i, IF c.err = "" THEN Goto(calls[i], "copy") ELSE Return(calls[i], c.err),
               c.fs)

\* io.Copy(file, data), storage.go:390, one chunk a step
UpWrite(i) ==
    /\ At(i, "UploadPart", "copy")
    /\ calls[i].off < Len(calls[i].data)
    /\ Step(i, [calls[i] EXCEPT !.off = @ + 1],
            WriteAt(fs, PartPath(calls[i].bucket, calls[i].uploadID, calls[i].n),
                    calls[i].off, <<calls[i].data[calls[i].off + 1]>>))

\* storage.go:395-404
UpReturn(i) ==
    /\ At(i, "UploadPart", "copy")
    /\ calls[i].off = Len(calls[i].data)
    /\ Step(i, Return(calls[i], ""), fs)

\* CompleteMultipartUpload, storage.go:412-415
CoMkdir(i) ==
    /\ At(i, "CompleteMultipartUpload", "start")
    /\ \E d \in { MkdirAll(fs, Parent(JoinPath(calls[i].bucket, calls[i].key))) } :
          Step(i, IF d.err = "" THEN Goto(calls[i], "create") ELSE Return(calls[i], d.err),
               d.fs)

\* storage.go:418-422: os.Create of the destination
CoCreate(i) ==
    /\ At(i, "CompleteMultipartUpload", "create")
    /\ \E c \in { Create(fs, JoinPath(calls[i].bucket, calls[i].key)) } :
          Step(i, IF c.err = "" THEN Goto(calls[i], "open") ELSE Return(calls[i], c.err),
               c.fs)

\* CoOpen that removes the destination when a part cannot be opened
CoOpenCleaningUp(i) ==
    /\ At(i, "CompleteMultipartUpload", "open")
    /\ calls[i].at < Len(calls[i].parts)
    /\ \E p \in { PartPath(calls[i].bucket, calls[i].uploadID,
                           calls[i].parts[calls[i].at + 1]) } :
          IF IsFile(fs, p)
          THEN Step(i, [calls[i] EXCEPT !.pc = "copy", !.out = fs[p].data], fs)
          ELSE Step(i, Return(calls[i], IF IsDir(fs, p) THEN "EISDIR" ELSE LookupErr(fs, p)),
                    Remove(fs, JoinPath(calls[i].bucket, calls[i].key)).fs)

\* storage.go:427-432: os.Open of the next part of the list; out is the open
\* part file, which keeps its bytes when its name is removed
CoOpen(i) ==
    /\ At(i, "CompleteMultipartUpload", "open")
    /\ calls[i].at < Len(calls[i].parts)
    /\ \E p \in { PartPath(calls[i].bucket, calls[i].uploadID,
                           calls[i].parts[calls[i].at + 1]) } :
          IF IsFile(fs, p)
          THEN Step(i, [calls[i] EXCEPT !.pc = "copy", !.out = fs[p].data], fs)
          ELSE Step(i, Return(calls[i], IF IsDir(fs, p) THEN "EISDIR" ELSE LookupErr(fs, p)),
                    fs)

\* storage.go:434-439: io.Copy(file, partFile) at the offset of the
\* destination file
CoCopy(i) ==
    /\ At(i, "CompleteMultipartUpload", "copy")
    /\ Step(i, [calls[i] EXCEPT !.pc = "open", !.at = @ + 1, !.out = <<>>,
                                !.off = @ + Len(calls[i].out)],
            WriteAt(fs, JoinPath(calls[i].bucket, calls[i].key), calls[i].off,
                    calls[i].out))

\* the list is done: on to os.RemoveAll(uploadDir), storage.go:443
CoCopied(i) ==
    /\ At(i, "CompleteMultipartUpload", "open")
    /\ calls[i].at = Len(calls[i].parts)
    /\ Step(i, Goto(calls[i], "removeall"), fs)

\* AbortMultipartUpload, storage.go:460-461
AbStart(i) ==
    /\ At(i, "AbortMultipartUpload", "start")
    /\ Step(i, Goto(calls[i], "removeall"), fs)

\* os.RemoveAll(uploadDir) removes the entries of the directory one by one
RemoveEntry(i) ==
    /\ i \in DOMAIN calls
    /\ calls[i].pc = "removeall"
    /\ \E p \in Children(fs, UploadDir(calls[i].bucket, calls[i].uploadID)) :
          Step(i, calls[i], Unbind(fs, Under(fs, p)))

\* ... and then the directory; the call returns (storage.go:445-456, 461)
RemoveDir(i) ==
    /\ i \in DOMAIN calls
    /\ calls[i].pc = "removeall"
    /\ Children(fs, UploadDir(calls[i].bucket, calls[i].uploadID)) = {}
    /\ Step(i, Return(calls[i], ""),
            Unbind(fs, { UploadDir(calls[i].bucket, calls[i].uploadID) } \cap DOMAIN fs))

\* InitiateMultipartUpload, storage.go:366-368
InCheck(i) ==
    /\ At(i, "InitiateMultipartUpload", "start")
    /\ Step(i, IF BucketExists(fs, calls[i].bucket) THEN Goto(calls[i], "clock")
               ELSE Return(calls[i], ErrBucketNotFound), fs)

\* storage.go:370: the upload ID is the clock's value, which is the value it
\* gave last or the next one
InClock(i) ==
    /\ At(i, "InitiateMultipartUpload", "clock")
    /\ \E t \in 1..MaxClock :
          /\ t \in {now, now + 1}
          /\ calls' = [calls EXCEPT ![i] = [calls[i] EXCEPT !.pc = "mkdir", !.out = Itoa(t)]]
          /\ now' = t
    /\ UNCHANGED <<disableAuth, sessions, fs, stored, hist, last, steps>>

\* storage.go:371-377: os.MkdirAll(uploadDir), which succeeds on a directory
\* that is there; out is the upload ID returned
InMkdir(i) ==
    /\ At(i, "InitiateMultipartUpload", "mkdir")
    /\ \E d \in { MkdirAll(fs, UploadDir(calls[i].bucket, calls[i].out)) } :
          Step(i, IF d.err = "" THEN Return(calls[i], "")
                  ELSE [Return(calls[i], d.err) EXCEPT !.out = <<>>], d.fs)

\* the CreateBucket request of a client that signs
CreateBucketRequest(bucket) == HandlerRequest(PUT, PathOf(bucket, <<>>), NoQuery, FALSE, "signed")

\* Handler.CreateBucket, handlers.go:137-148; err is the error code written
CbAuthenticate(i) ==
    /\ At(i, "CreateBucketRequest", "start")
    /\ \E a \in { authenticate(disableAuth, CreateBucketRequest(calls[i].bucket)) } :
          Step(i, IF a.err # "" THEN Return(calls[i], "AccessDenied")
                  ELSE IF calls[i].bucket = <<>> THEN Return(calls[i], "InvalidBucketName")
                  ELSE Goto(calls[i], "exists"), fs)

\* handlers.go:150-153
CbExists(i) ==
    /\ At(i, "CreateBucketRequest", "exists")
    /\ Step(i, IF BucketExists(fs, calls[i].bucket)
               THEN Return(calls[i], "BucketAlreadyExists")
               ELSE Goto(calls[i], "create"), fs)

\* handlers.go:155-161: h.storage.CreateBucket, then 200
CbCreate(i) ==
    /\ At(i, "CreateBucketRequest", "create")
    /\ \E c \in { CreateBucket(fs, calls[i].bucket) } :
          Step(i, Return(calls[i], IF c.err # "" THEN "InternalError" ELSE ""), c.fs)

Put(bucket, key, data, after) == Call("PutObject", bucket, key, <<>>, 0, <<>>, data, after)
\* data of a GetObject: what the object held when the calls were made
Get(bucket, key, held) == Call("GetObject", bucket, key, <<>>, 0, <<>>, held, {})
Up(bucket, key, uploadID, n, data) == Call("UploadPart", bucket, key, uploadID, n, <<>>, data, {})
Complete(bucket, key, uploadID, parts, after) ==
    Call("CompleteMultipartUpload", bucket, key, uploadID, 0, parts, <<>>, after)
Abort(bucket, key, uploadID) ==
    Call("AbortMultipartUpload", bucket, key, uploadID, 0, <<>>, <<>>, {})
Initiate(bucket, key, after) ==
    Call("InitiateMultipartUpload", bucket, key, <<>>, 0, <<>>, <<>>, after)
CreateReq(bucket, after) == Call("CreateBucketRequest", bucket, <<>>, <<>>, 0, <<>>, <<>>, after)

\* data directories left by earlier runs: bucket b1 with the object top ...
SeedTop == PutObject(SeedBucket, <<"b1">>, <<"top">>, <<"B">>, 1, NoMetadata, <<>>).fs

\* ... and bucket b1 with the upload "1" initiated, nothing staged
SeedSession == InitiateMultipartUpload(SeedBucket, <<"b1">>, <<"top">>, NoMetadata, 1).fs

\* the races: a data directory, the clock and the calls made on it
Races ==
    { [fs |-> SeedTop, now |-> 0,
       calls |-> << Put(<<"b1">>, <<"top">>, <<"A", "A">>, {}),
                    Get(<<"b1">>, <<"top">>, <<"B">>) >>],
      [fs |-> SeedBucket, now |-> 0,
       calls |-> << Put(<<"b1">>, <<"top">>, <<"A", "A">>, {}),
                    Put(<<"b1">>, <<"top">>, <<"B">>, {}) >>],
      [fs |-> SeedParts, now |-> 1,
       calls |-> << Complete(<<"b1">>, <<"top">>, <<"1">>, <<1, 2>>, {}),
                    Abort(<<"b1">>, <<"top">>, <<"1">>) >>] }
    \cup
    { [fs |-> SeedSession, now |-> 1,
       calls |-> << Up(<<"b1">>, <<"top">>, <<"1">>, 1, <<"A", "A">>),
                    Up(<<"b1">>, <<"top">>, <<"1">>, 2, <<"B">>),
                    Complete(<<"b1">>, <<"top">>, <<"1">>, parts, {1, 2}) >>] :
        parts \in { <<1, 2>>, <<2, 1>> } }
    \cup
    { [fs |-> SeedBucket, now |-> 0,
       calls |-> << Initiate(<<"b1">>, <<"top">>, {}),
                    Initiate(<<"b1">>, <<"a", "/", "x">>, after) >>] :
        after \in { {}, {1} } }
    \cup
    { [fs |-> f, now |-> 0,
       calls |-> << CreateReq(<<"b1">>, {}), CreateReq(<<"b1">>, after) >>] :
        f \in { EmptyDisk, SeedBucket }, after \in { {}, {1} } }

RaceInit ==
    /\ \E race \in Races :
          /\ fs = race.fs
          /\ now = race.now
          /\ calls = race.calls
          /\ hist = [b \in Buckets |-> IF BucketExists(race.fs, b) THEN "live" ELSE "never"]
    /\ stored = {}
    /\ sessions = {}
    /\ last = NoCall
    /\ steps = 0
    /\ disableAuth = FALSE

RaceNext ==
    \/ \E i \in DOMAIN calls : PutCheck(i)
    \/ \E i \in DOMAIN calls : PutMkdir(i)
    \/ \E i \in DOMAIN calls : PutCreate(i)
    \/ \E i \in DOMAIN calls : PutWrite(i)
    \/ \E i \in DOMAIN calls : PutReturn(i)
    \/ \E i \in DOMAIN calls : GetOpen(i)
    \/ \E i \in DOMAIN calls : GetRead(i)
    \/ \E i \in DOMAIN calls : UpCreate(i)
    \/ \E i \in DOMAIN calls : UpWrite(i)
    \/ \E i \in DOMAIN calls : UpReturn(i)
    \/ \E i \in DOMAIN calls : CoMkdir(i)
    \/ \E i \in DOMAIN calls : CoCreate(i)
    \/ \E i \in DOMAIN calls : CoOpen(i)
    \/ \E i \in DOMAIN calls : CoCopy(i)
    \/ \E i \in DOMAIN calls : CoCopied(i)
    \/ \E i \in DOMAIN calls : AbStart(i)
    \/ \E i \in DOMAIN calls : RemoveEntry(i)
    \/ \E i \in DOMAIN calls : RemoveDir(i)
    \/ \E i \in DOMAIN calls : InCheck(i)
    \/ \E i \in DOMAIN calls : InClock(i)
    \/ \E i \in DOMAIN calls : InMkdir(i)
    \/ \E i \in DOMAIN calls : CbAuthenticate(i)
    \/ \E i \in DOMAIN calls : CbExists(i)
    \/ \E i \in DOMAIN calls : CbCreate(i)

RaceSpec == RaceInit /\ [][RaceNext]_vars


\* the calls of op on object key of bucket
CallsOn(op, bucket, key) ==
    { i \in DOMAIN calls : calls[i].op = op /\ calls[i].bucket = bucket /\ calls[i].key = key }

Returned(i) == calls[i].pc = "done"

\* C21: PutObject replaces an object atomically: a GetObject that runs
\* concurrently with a PutObject on the same bucket and key returns the
\* complete previous content or the complete new content, never an empty or
\* partly written object.
C21_ConcurrentGetSeesOldOrNewContent ==
    \A i \in DOMAIN calls :
        (calls[i].op = "GetObject" /\ Returned(i) /\ calls[i].err = "")
            => calls[i].out \in { calls[i].data }
                   \cup { calls[j].data : j \in CallsOn("PutObject", calls[i].bucket, calls[i].key) }

\* C22: when the concurrent PutObject calls on one bucket and key have all
\* returned, the object holds exactly the content of one of them, never a
\* mixture of the bytes of several.
C22_ConcurrentPutsLeaveOneContent ==
    \A i \in DOMAIN calls :
        LET puts == CallsOn("PutObject", calls[i].bucket, calls[i].key)
        IN  (/\ calls[i].op = "PutObject"
             /\ Cardinality(puts) > 1
             /\ \A j \in puts : Returned(j) /\ calls[j].err = "")
                => /\ IsFile(fs, JoinPath(calls[i].bucket, calls[i].key))
                   /\ fs[JoinPath(calls[i].bucket, calls[i].key)].data
                          \in { calls[j].data : j \in puts }


\* the calls of op on the session uploadID of bucket
SessionCalls(op, bucket, uploadID) ==
    { i \in DOMAIN calls :
        calls[i].op = op /\ calls[i].bucket = bucket /\ calls[i].uploadID = uploadID }

RECURSIVE SentBytes(_, _)
\* the bytes that the UploadPart calls us sent for the parts of the list
SentBytes(us, parts) ==
    IF parts = <<>> THEN <<>>
    ELSE LET u == CHOOSE j \in us : calls[j].n = Head(parts)
         IN  calls[u].data \o SentBytes(us, Tail(parts))

\* C23: concurrent UploadPart calls with distinct part numbers on one
\* session do not interfere: under every interleaving, once all have
\* returned each staged part holds exactly the bytes of its own call, and a
\* CompleteMultipartUpload that follows yields their concatenation in the
\* order of its list.
C23_ConcurrentPartsDoNotInterfere ==
    \A i \in DOMAIN calls :
        LET us == SessionCalls("UploadPart", calls[i].bucket, calls[i].uploadID)
        IN  (/\ calls[i].op = "CompleteMultipartUpload"
             /\ us # {} /\ us \subseteq calls[i].after
             /\ \A u, v \in us : calls[u].n = calls[v].n => u = v
             /\ SessionCalls("AbortMultipartUpload", calls[i].bucket, calls[i].uploadID) = {}
             /\ \A u \in us : Returned(u))
                => /\ \A u \in us : calls[u].err = ""
                   /\ calls[i].pc = "start" =>
                         \A u \in us :
                             LET p == PartPath(calls[u].bucket, calls[u].uploadID, calls[u].n)
                             IN  IsFile(fs, p) /\ fs[p].data = calls[u].data
                   /\ Returned(i) =>
                         /\ calls[i].err = ""
                         /\ fs[JoinPath(calls[i].bucket, calls[i].key)]
                               = File(SentBytes(us, calls[i].parts))

\* parts 1 and 2 were uploaded concurrently and completed as 2, 1: the
\* object holds the bytes of part 2, then those of part 1
C23_Witness ==
    /\ Len(calls) = 3
    /\ calls[1].op = "UploadPart" /\ calls[2].op = "UploadPart"
    /\ calls[1].after = {} /\ calls[2].after = {}
    /\ calls[3].op = "CompleteMultipartUpload" /\ calls[3].parts = <<2, 1>>
    /\ Returned(3) /\ calls[3].err = ""
    /\ fs[JoinPath(calls[3].bucket, calls[3].key)].data = calls[2].data \o calls[1].data


\* s is the beginning of t and not all of it
ProperPrefix(s, t) == Len(s) < Len(t) /\ SubSeq(t, 1, Len(s)) = s

\* C24: nothing serialises CompleteMultipartUpload and AbortMultipartUpload
\* on one session.  When they run concurrently on a session whose listed
\* parts are all staged, the complete either succeeds with the whole
\* concatenation or fails with the missing-part error of os.Open and leaves
\* at the destination key a truncated object, the beginning of the
\* concatenation; C24_Witness is an interleaving with the bad outcome.
C24_CompleteRacingAbortFailsOrTruncates ==
    \A i \in DOMAIN calls :
        LET objectPath == JoinPath(calls[i].bucket, calls[i].key)
            whole == StagedBytes(SeedParts, calls[i].bucket, calls[i].uploadID, calls[i].parts)
        IN  (/\ calls[i].op = "CompleteMultipartUpload"
             /\ Returned(i)
             /\ \E j \in SessionCalls("AbortMultipartUpload", calls[i].bucket,
                                      calls[i].uploadID) : calls[j].after = {})
                => \/ calls[i].err = "" /\ fs[objectPath] = File(whole)
                   \/ /\ calls[i].err = "ENOENT"
                      /\ IsFile(fs, objectPath)
                      /\ ProperPrefix(fs[objectPath].data, whole)

\* the abort removed part 2 after the complete had copied part 1: the
\* complete failed on the missing part and the object holds part 1 only
C24_Witness ==
    /\ Len(calls) = 2
    /\ calls[1].op = "CompleteMultipartUpload" /\ calls[2].op = "AbortMultipartUpload"
    /\ Returned(1) /\ Returned(2)
    /\ calls[1].err = "ENOENT"
    /\ fs[JoinPath(calls[1].bucket, calls[1].key)].data = <<"A", "A">>
    /\ Under(fs, UploadDir(calls[1].bucket, calls[1].uploadID)) = {}


\* the clock value that upload ID id was made from
ClockOf(id) == CHOOSE t \in 0..(MaxClock + 1) : Itoa(t) = id

\* C25: any two successful InitiateMultipartUpload calls, made one after
\* the other or concurrently, for the same key or for different keys,
\* return distinct upload IDs and so never share a staging directory; the
\* later of two calls gets the larger ID.
C25_UploadIDsAreDistinctAndIncreasing ==
    \A i, j \in DOMAIN calls :
        (/\ i # j
         /\ calls[i].op = "InitiateMultipartUpload" /\ Returned(i) /\ calls[i].err = ""
         /\ calls[j].op = "InitiateMultipartUpload" /\ Returned(j) /\ calls[j].err = "")
            => /\ calls[i].out # calls[j].out
               /\ UploadDir(calls[i].bucket, calls[i].out)
                     # UploadDir(calls[j].bucket, calls[j].out)
               /\ i \in calls[j].after => ClockOf(calls[i].out) < ClockOf(calls[j].out)


\* the CreateBucket requests for bucket
CreateRequests(bucket) ==
    { i \in DOMAIN calls : calls[i].op = "CreateBucketRequest" /\ calls[i].bucket = bucket }

\* C28: a CreateBucket request for a bucket that exists is answered
\* BucketAlreadyExists; of several CreateBucket requests for one name, made
\* one after the other or concurrently with no delete in between, exactly
\* one is answered success, and none if the bucket was there before.
C28_OneCreateBucketSucceeds ==
    \A b \in Buckets :
        (CreateRequests(b) # {} /\ \A i \in CreateRequests(b) : Returned(i))
            => /\ \A i \in CreateRequests(b) : calls[i].err \in { "", "BucketAlreadyExists" }
               /\ Cardinality({ i \in CreateRequests(b) : calls[i].err = "" })
                     = IF hist[b] = "live" THEN 0 ELSE 1

=============================================================================
